---- MODULE Spec2Model ----
(***************************************************************************)
(* BuySense backend: one POST /api/analyze request (backend/src/index.ts)  *)
(* and the price-search aggregator searchProductPrices                     *)
(* (backend/src/services/scraper.ts).                                      *)
(*                                                                         *)
(* A price is a JavaScript number with at most two fractional digits, as   *)
(* parsePrice returns it: the integer p stands for the price p/100.  The   *)
(* prices of a request are multiples of 0.5, which are exact in IEEE       *)
(* doubles, and so are their differences.  An optional field               *)
(* (savings?: number) is a set: {} is undefined, {n} is the number n.      *)
(*                                                                         *)
(* settledAtReturn is a history variable: the searches that had settled    *)
(* when searchProductPrices returned; so is overtook: a search has settled *)
(* while a search launched before it was still in flight.  No action reads *)
(* them.                                                                   *)
(*                                                                         *)
(* The page (frontend/src: App, URLInput, AskAI, PriceComparison) keeps    *)
(* the useState values of its components next to the state React last      *)
(* committed; a handler on the page tests the committed state.             *)
(* confidenceFrom and clearedError are history variables too.              *)
(*                                                                         *)
(* Scheduling: every action is one macrotask of the Node.js event loop.    *)
(* A promise continuation that is ready runs before any other macrotask,   *)
(* so no timer or fetch completion is taken while Resume is enabled.       *)
(***************************************************************************)
EXTENDS Integers, Sequences, FiniteSets, TLC

VARIABLES pc, entry, url, sourceMarketplace, sourcePrice, searchPromises,
          op, timer, race, searchedPrices, prices, status, settledAtReturn,
          overtook,
          text, parts, priceOut, countOut,
          extractor, scrapeFetch, pageFetches, page, jsonLdResult, scraped,
          aiAnalysis, product,
          app, urlInput, askAI, committed, analyzeFetches, askFetches,
          confidenceFrom, clearedError

\* The page in the browser: the state of App, of URLInput and of AskAI, the
\* state React last committed (the one the handlers on the page closed over),
\* the analyze and ask-ai requests in flight, the answer that arrived with the
\* confidence AskAI holds, and whether the running analysis started with an
\* error message on display.
pageVars == <<app, urlInput, askAI, committed, analyzeFetches, askFetches,
              confidenceFrom, clearedError>>

\* The analyze handler between its awaits: what geminiAnalyze settled with, and
\* the productData it built.
mergeVars == <<aiAnalysis, product>>

\* scrapeProduct at work: the extractor it delegated to, the state of that
\* extractor's page fetch, the number of page fetches issued, the page
\* received, the jsonLdPrice of the Amazon and Flipkart extractors and the
\* value returned.
scrapeVars == <<extractor, scrapeFetch, pageFetches, page, jsonLdResult, scraped>>

\* A text parser at work: its argument, what the argument was built from, and
\* what parsePrice and parseRatingCount returned for it.
parseVars == <<text, parts, priceOut, countOut>>

vars == <<pc, entry, url, sourceMarketplace, sourcePrice, searchPromises,
          op, timer, race, searchedPrices, prices, status, settledAtReturn,
          overtook, parseVars, scrapeVars, mergeVars, pageVars>>

(* ---------------- bounds ---------------- *)

\* Number of prices above 0, in steps of 0.5, a request can meet.
MaxPrice == 2

Prices == { 50 * i : i \in 0..MaxPrice }

(* ---------------- strings ---------------- *)

UpperChars == "ABCDEFGHIJKLMNOPQRSTUVWXYZ"
LowerChars == "abcdefghijklmnopqrstuvwxyz"

UpperSet == { SubSeq(UpperChars, i, i) : i \in 1..26 }

LowerChar(c) ==
    IF c \in UpperSet
    THEN LET i == CHOOSE j \in 1..26 : SubSeq(UpperChars, j, j) = c
         IN SubSeq(LowerChars, i, i)
    ELSE c

\* String.prototype.toLowerCase on ASCII text.
RECURSIVE toLowerCase(_)
toLowerCase(s) ==
    IF Len(s) = 0 THEN ""
    ELSE LowerChar(SubSeq(s, 1, 1)) \o toLowerCase(SubSeq(s, 2, Len(s)))

\* String.prototype.includes.
includes(s, t) ==
    \E i \in 1..(Len(s) - Len(t) + 1) : SubSeq(s, i, i + Len(t) - 1) = t

(* ---------------- scraper.ts: text parsers ---------------- *)

Char(s, i) == SubSeq(s, i, i)

Digits == "0123456789"

IsDigit(c) == \E i \in 1..10 : Char(Digits, i) = c

DigitVal(c) == (CHOOSE i \in 1..10 : Char(Digits, i) = c) - 1

\* Characters matched by \s (those the texts of the model contain).
IsSpace(c) == c \in {" ", "\t", "\n"}

\* s.replace(/[...]/g, '') for a set of characters.
RECURSIVE RemoveChars(_, _)
RemoveChars(s, cs) ==
    IF Len(s) = 0 THEN ""
    ELSE (IF Char(s, 1) \in cs THEN "" ELSE Char(s, 1))
            \o RemoveChars(SubSeq(s, 2, Len(s)), cs)

\* s.replace(/word opt?/gi, '') for a lower-case word and an optional
\* character after it (opt = "" when there is none).
RECURSIVE RemoveWord(_, _, _)
RemoveWord(s, word, opt) ==
    IF Len(s) = 0 THEN ""
    ELSE IF /\ Len(s) >= Len(word)
            /\ toLowerCase(SubSeq(s, 1, Len(word))) = word
         THEN LET n == IF /\ opt # ""
                          /\ Len(s) > Len(word)
                          /\ Char(s, Len(word) + 1) = opt
                       THEN Len(word) + 1 ELSE Len(word)
              IN RemoveWord(SubSeq(s, n + 1, Len(s)), word, opt)
         ELSE Char(s, 1) \o RemoveWord(SubSeq(s, 2, Len(s)), word, opt)

\* String.prototype.trim.
RECURSIVE trim(_)
trim(s) ==
    IF Len(s) = 0 THEN ""
    ELSE IF IsSpace(Char(s, 1)) THEN trim(SubSeq(s, 2, Len(s)))
    ELSE IF IsSpace(Char(s, Len(s))) THEN trim(SubSeq(s, 1, Len(s) - 1))
    ELSE s

\* Length of the longest prefix of s made of digits.
RECURSIVE DigitRun(_)
DigitRun(s) ==
    IF Len(s) > 0 /\ IsDigit(Char(s, 1))
    THEN 1 + DigitRun(SubSeq(s, 2, Len(s))) ELSE 0

\* Value of a string of digits ("" is 0).
RECURSIVE NatOf(_)
NatOf(s) ==
    IF Len(s) = 0 THEN 0
    ELSE 10 * NatOf(SubSeq(s, 1, Len(s) - 1)) + DigitVal(Char(s, Len(s)))

\* The decimal numeral of n.
RECURSIVE NatToStr(_)
NatToStr(n) ==
    IF n < 10 THEN Char(Digits, n + 1)
    ELSE NatToStr(n \div 10) \o Char(Digits, (n % 10) + 1)

RECURSIVE Pow10(_)
Pow10(n) == IF n = 0 THEN 1 ELSE 10 * Pow10(n - 1)

\* Math.round(x * scale) for the decimal numeral with integer digits ip and
\* fraction digits fp: floor(x * scale + 0.5).  (Exact for the numerals of the
\* model, none of which lies within a rounding error of a half.)
RoundScaled(ip, fp, scale) ==
    NatOf(ip) * scale
       + (2 * NatOf(fp) * scale + Pow10(Len(fp))) \div (2 * Pow10(Len(fp)))

\* Position of the first match of /(\d+\.?\d*)/ in s, 0 when there is none.
FirstDigitPos(s) ==
    IF \E i \in 1..Len(s) : IsDigit(Char(s, i))
    THEN CHOOSE i \in 1..Len(s) :
            /\ IsDigit(Char(s, i))
            /\ \A j \in 1..(i - 1) : ~IsDigit(Char(s, j))
    ELSE 0

\* The JavaScript NaN, where a number is expected (none of them is negative).
NaN == 0 - 1

\* The text parsePrice matches the number in: currency symbols, "MRP" with its
\* colon, "Rs" with its dot and "INR" removed in this order, trimmed, commas
\* removed.
cleanPrice(priceStr) ==
    RemoveChars(
        trim(RemoveWord(RemoveWord(RemoveWord(
            RemoveChars(priceStr, {"₹", "$", "€", "£"}),
            "mrp", ":"), "rs", "."), "inr", "")),
        {","})

\* Math.round(parseFloat(match[1]) * 100) for the first match of
\* /(\d+\.?\d*)/ in cleaned (the price in hundredths), noMatch when there is
\* no match.
firstNumber(cleaned, noMatch) ==
    LET at == FirstDigitPos(cleaned)
    IN IF at = 0 THEN noMatch
       ELSE LET rest == SubSeq(cleaned, at, Len(cleaned))
                n == DigitRun(rest)
                hasDot == Len(rest) > n /\ Char(rest, n + 1) = "."
                m == IF hasDot
                     THEN DigitRun(SubSeq(rest, n + 2, Len(rest))) ELSE 0
            IN RoundScaled(SubSeq(rest, 1, n),
                           SubSeq(rest, n + 2, n + 1 + m), 100)

\* Variant: no early return when nothing matches.
parsePrice_NoMatchNaN(priceStr) ==
    IF priceStr = "" THEN 0 ELSE firstNumber(cleanPrice(priceStr), NaN)

\* parsePrice: the price of a text, in hundredths.
parsePrice(priceStr) ==
    IF priceStr = "" THEN 0 ELSE firstNumber(cleanPrice(priceStr), 0)

\* Length of the longest prefix of s made of digits and dots.
RECURSIVE DigitDotRun(_)
DigitDotRun(s) ==
    IF Len(s) > 0 /\ (IsDigit(Char(s, 1)) \/ Char(s, 1) = ".")
    THEN 1 + DigitDotRun(SubSeq(s, 2, Len(s))) ELSE 0

\* Position of the first match of /([\d.]+)([km]?)/ in s, 0 when none.
FirstDigitDotPos(s) ==
    IF \E i \in 1..Len(s) : IsDigit(Char(s, i)) \/ Char(s, i) = "."
    THEN CHOOSE i \in 1..Len(s) :
            /\ IsDigit(Char(s, i)) \/ Char(s, i) = "."
            /\ \A j \in 1..(i - 1) : ~(IsDigit(Char(s, j)) \/ Char(s, j) = ".")
    ELSE 0

\* Math.round(parseFloat(run) * scale) for a run of digits and dots:
\* parseFloat reads digits, one dot and digits, and is NaN when it reads no
\* digit.
RoundParseFloat(run, scale) ==
    LET n == DigitRun(run)
        hasDot == Len(run) > n /\ Char(run, n + 1) = "."
        m == IF hasDot THEN DigitRun(SubSeq(run, n + 2, Len(run))) ELSE 0
    IN IF n = 0 /\ m = 0 THEN NaN
       ELSE RoundScaled(SubSeq(run, 1, n), SubSeq(run, n + 2, n + 1 + m), scale)

\* parseRatingCount.
parseRatingCount(countStr) ==
    IF countStr = "" THEN 0
    ELSE LET cleaned == toLowerCase(RemoveChars(countStr, {",", " ", "\t", "\n"}))
             at == FirstDigitDotPos(cleaned)
         IN IF at = 0 THEN 0
            ELSE LET rest == SubSeq(cleaned, at, Len(cleaned))
                     n == DigitDotRun(rest)
                     suffix == IF Len(rest) > n THEN Char(rest, n + 1) ELSE ""
                     scale == IF suffix = "k" THEN 1000
                              ELSE IF suffix = "m" THEN 1000000 ELSE 1
                 IN RoundParseFloat(SubSeq(rest, 1, n), scale)

(* ---------------- values ---------------- *)

Undefined == {}
Null == [isNull |-> TRUE]

\* The request bodies tried: parseable absolute URLs, and the missing url.
Urls == { "",
          "https://amazon.in/dp/1",
          "https://WWW.FLIPKART.COM/p",
          "https://myntra.com/a",
          "https://reliancedigital.in/p",
          "https://shop.example/p" }

\* Source names a caller of the exported searchProductPrices may pass besides
\* the labels of detectMarketplace.
DirectNames == { "Amazon.in", "reliance", "FLIPKART" }

\* The outcome of a function that throws.
Thrown == [thrown |-> TRUE]

(* ---------------- index.ts helpers ---------------- *)

detectMarketplace(u) ==
    LET lowerUrl == toLowerCase(u) IN
    IF includes(lowerUrl, "amazon") THEN "Amazon"
    ELSE IF includes(lowerUrl, "flipkart") THEN "Flipkart"
    ELSE IF includes(lowerUrl, "myntra") THEN "Myntra"
    ELSE IF includes(lowerUrl, "meesho") THEN "Meesho"
    ELSE IF includes(lowerUrl, "croma") THEN "Croma"
    ELSE IF includes(lowerUrl, "reliancedigital") THEN "Reliance Digital"
    ELSE IF includes(lowerUrl, "ebay") THEN "eBay"
    ELSE IF includes(lowerUrl, "walmart") THEN "Walmart"
    ELSE IF includes(lowerUrl, "bestbuy") THEN "Best Buy"
    ELSE "Generic"

\* The marketplaces table of generateMarketplaceUrls; searchUrl is the part
\* of the URL before the encoded title.
marketplaces ==
    << [name |-> "Amazon",           searchUrl |-> "https://www.amazon.in/s?k="],
       [name |-> "Flipkart",         searchUrl |-> "https://www.flipkart.com/search?q="],
       [name |-> "Myntra",           searchUrl |-> "https://www.myntra.com/"],
       [name |-> "Meesho",           searchUrl |-> "https://www.meesho.com/search?q="],
       [name |-> "Croma",            searchUrl |-> "https://www.croma.com/search/?q="],
       [name |-> "Reliance Digital", searchUrl |-> "https://www.reliancedigital.in/search?q="] >>

\* Variant: the source marketplace is not filtered out.
generateMarketplaceUrls_NoFilter(source) == marketplaces

generateMarketplaceUrls(source) ==
    SelectSeq(marketplaces,
              LAMBDA m : toLowerCase(m.name) # toLowerCase(source))

\* Math.round on a value given in hundredths: floor(x + 0.5).
MathRound(d) == 100 * ((d + 50) \div 100)

RECURSIVE MinOf(_)
MinOf(S) ==
    LET x == CHOOSE y \in S : TRUE IN
    IF S = {x} THEN x
    ELSE LET r == MinOf(S \ {x}) IN IF x < r THEN x ELSE r

\* Math.min(...prices.map(p => p.price)), for a non-empty list.
MathMin(ps) == MinOf({ ps[i].price : i \in 1..Len(ps) })

\* searchedPrices.map(p => ({...})) of the analyze handler.
toPriceData(p) ==
    [store |-> p.store, price |-> p.price, currency |-> p.currency,
     url |-> p.url, availability |-> p.availability,
     savings |-> Undefined, isBestPrice |-> FALSE]

\* The best-price block of the analyze handler.
rankPrices(ps) ==
    IF Len(ps) > 0
    THEN LET bestPrice == MathMin(ps) IN
         [i \in 1..Len(ps) |->
            [ps[i] EXCEPT
               !.isBestPrice = (ps[i].price = bestPrice),
               !.savings = IF ps[i].price > bestPrice
                           THEN {MathRound(ps[i].price - bestPrice)}
                           ELSE ps[i].savings]]
    ELSE ps

placeholder(mp) ==
    [store |-> mp.name, price |-> 0, currency |-> "INR", url |-> mp.searchUrl,
     availability |-> "in-stock", savings |-> Undefined, isBestPrice |-> FALSE]

\* The placeholder fallback of the analyze handler.
addPlaceholders(ps, source) ==
    IF Len(ps) = 1
    THEN LET marketplaceUrls == generateMarketplaceUrls(source)
             n == IF Len(marketplaceUrls) < 3 THEN Len(marketplaceUrls) ELSE 3
         IN ps \o [i \in 1..n |-> placeholder(marketplaceUrls[i])]
    ELSE ps

\* prices of the response, from the list searchProductPrices returned.
responsePrices(searched, source) ==
    addPlaceholders(
        rankPrices([i \in 1..Len(searched) |-> toPriceData(searched[i])]),
        source)

(* ---------------- scraper.ts: product pages ---------------- *)

\* The URL tokens scrapeProduct tests, in its order; each names an extractor.
RouterOrder ==
    <<"amazon", "flipkart", "croma", "meesho", "reliancedigital", "myntra">>

\* Variant: a URL without a token is given to the Amazon extractor.
route_DefaultAmazon(u) ==
    IF \E i \in 1..Len(RouterOrder) : includes(toLowerCase(u), RouterOrder[i])
    THEN RouterOrder[CHOOSE i \in 1..Len(RouterOrder) :
            /\ includes(toLowerCase(u), RouterOrder[i])
            /\ \A j \in 1..(i - 1) : ~includes(toLowerCase(u), RouterOrder[j])]
    ELSE "amazon"

\* Variant: the last token found decides.
route_LastMatch(u) ==
    IF \E i \in 1..Len(RouterOrder) : includes(toLowerCase(u), RouterOrder[i])
    THEN RouterOrder[CHOOSE i \in 1..Len(RouterOrder) :
            /\ includes(toLowerCase(u), RouterOrder[i])
            /\ \A j \in (i + 1)..Len(RouterOrder) :
                  ~includes(toLowerCase(u), RouterOrder[j])]
    ELSE "none"

\* The extractor scrapeProduct delegates to for url u, "none" when it
\* returns null itself.
route(u) ==
    IF \E i \in 1..Len(RouterOrder) : includes(toLowerCase(u), RouterOrder[i])
    THEN RouterOrder[CHOOSE i \in 1..Len(RouterOrder) :
            /\ includes(toLowerCase(u), RouterOrder[i])
            /\ \A j \in 1..(i - 1) : ~includes(toLowerCase(u), RouterOrder[j])]
    ELSE "none"

\* JSON values of the fields price, lowPrice and highPrice: a number (in
\* hundredths), a string, or absent (Undefined).
JNum(n) == {[t |-> "num", n |-> n, s |-> ""]}
JStr(str) == {[t |-> "str", n |-> 0, s |-> str]}

\* JavaScript truthiness of such a value.
Truthy(v) ==
    \E x \in v : (x.t = "num" /\ x.n # 0) \/ (x.t = "str" /\ x.s # "")

\* parseFloat of a text, in hundredths: the longest numeral the text starts
\* with, NaN when it starts with none.  (The texts of the model carry no sign,
\* exponent or leading blank, and at most two fraction digits here.)
parseFloatText(str) ==
    RoundParseFloat(SubSeq(str, 1, DigitDotRun(str)), 100)

\* parseFloat of a truthy JSON value.
parseFloatValue(v) ==
    LET x == CHOOSE x \in v : TRUE
    IN IF x.t = "num" THEN x.n ELSE parseFloatText(x.s)

\* The loop over the offers of a Product item: the first offer whose price
\* (or else lowPrice) is truthy and parses to a number.
RECURSIVE fromOffers(_)
fromOffers(offers) ==
    IF Len(offers) = 0 THEN Null
    ELSE LET price == IF Truthy(offers[1].price) THEN offers[1].price
                      ELSE offers[1].lowPrice
         IN IF Truthy(price) /\ parseFloatValue(price) # NaN
            THEN [current |-> parseFloatValue(price),
                  original |-> IF Truthy(offers[1].highPrice)
                               THEN {parseFloatValue(offers[1].highPrice)}
                               ELSE Undefined]
            ELSE fromOffers(Tail(offers))

\* The loop over the items of one parsed block: the price of the first
\* Product item that has one, Null when there is none, Thrown when an item
\* that is not an object is met first.
RECURSIVE fromItems(_)
fromItems(items) ==
    IF Len(items) = 0 THEN Null
    ELSE IF items[1].type = "null" THEN Thrown
    ELSE IF includes(items[1].type, "Product") /\ fromOffers(items[1].offers) # Null
         THEN fromOffers(items[1].offers)
    ELSE fromItems(Tail(items))

\* Variant: a script that does not parse ends the search.
RECURSIVE extractPriceFromJsonLd_FatalParse(_)
extractPriceFromJsonLd_FatalParse(scripts) ==
    IF Len(scripts) = 0 THEN Null
    ELSE IF scripts[1].kind = "malformed" THEN Null
    ELSE IF scripts[1].kind = "json"
            /\ fromItems(scripts[1].items) \notin {Null, Thrown}
         THEN fromItems(scripts[1].items)
    ELSE extractPriceFromJsonLd_FatalParse(Tail(scripts))

\* extractPriceFromJsonLd over the ld+json scripts of a page: empty scripts,
\* scripts that do not parse and scripts whose reading throws are skipped.
RECURSIVE extractPriceFromJsonLd(_)
extractPriceFromJsonLd(scripts) ==
    IF Len(scripts) = 0 THEN Null
    ELSE IF scripts[1].kind = "json"
            /\ fromItems(scripts[1].items) \notin {Null, Thrown}
         THEN fromItems(scripts[1].items)
    ELSE extractPriceFromJsonLd(Tail(scripts))

\* a.trim() || b.trim() || ... || '' over the texts a chain of selectors
\* yields.
RECURSIVE FirstNonEmpty(_)
FirstNonEmpty(texts) ==
    IF Len(texts) = 0 THEN ""
    ELSE IF trim(texts[1]) # "" THEN trim(texts[1])
    ELSE FirstNonEmpty(Tail(texts))

\* The loop over price selectors that stops at the first text whose price is
\* above floor; 0 when there is none.  only is a character the text has to
\* contain ("" for none).
RECURSIVE FirstPriceAbove(_, _, _)
FirstPriceAbove(texts, floor, only) ==
    IF Len(texts) = 0 THEN 0
    ELSE IF /\ trim(texts[1]) # ""
            /\ only = "" \/ includes(trim(texts[1]), only)
            /\ parsePrice(trim(texts[1])) > floor
         THEN parsePrice(trim(texts[1]))
    ELSE FirstPriceAbove(Tail(texts), floor, only)

\* s.replace(/[^\d]/g, '').
RECURSIVE DigitsOnly(_)
DigitsOnly(s) ==
    IF Len(s) = 0 THEN ""
    ELSE (IF IsDigit(Char(s, 1)) THEN Char(s, 1) ELSE "")
            \o DigitsOnly(SubSeq(s, 2, Len(s)))

\* Variant: an original price that is not above the current one is clamped.
PriceOf_Clamped(current, original) ==
    [current |-> current,
     original |-> IF original > current THEN {original} ELSE {current},
     currency |-> "INR"]

\* The price field of a returned record: the original price is kept only
\* when it is above the current one.
PriceOf(current, original) ==
    [current |-> current,
     original |-> IF original > current THEN {original} ELSE Undefined,
     currency |-> "INR"]

\* xs.slice(0, n).
Slice(xs, n) == SubSeq(xs, 1, IF Len(xs) < n THEN Len(xs) ELSE n)

InSeq(x, xs) == \E i \in 1..Len(xs) : xs[i] = x

\* The loop that collects image addresses: empty and repeated ones are
\* skipped, and so are those without the text must ("" for none) and those
\* with one of the texts in never.
RECURSIVE CollectImages(_, _, _, _)
CollectImages(srcs, acc, must, never) ==
    IF Len(srcs) = 0 THEN acc
    ELSE CollectImages(Tail(srcs),
            IF /\ srcs[1] # ""
               /\ ~InSeq(srcs[1], acc)
               /\ must = "" \/ includes(srcs[1], must)
               /\ \A t \in never : ~includes(srcs[1], t)
            THEN Append(acc, srcs[1]) ELSE acc,
            must, never)

\* The loop that collects highlights: trimmed texts longer than over and
\* shorter than under (0 for no limit) that do not contain the text never
\* ("" for none).
RECURSIVE CollectHighlights(_, _, _, _, _)
CollectHighlights(texts, acc, over, under, never) ==
    IF Len(texts) = 0 THEN acc
    ELSE CollectHighlights(Tail(texts),
            IF /\ Len(trim(texts[1])) > over
               /\ under = 0 \/ Len(trim(texts[1])) < under
               /\ never = "" \/ ~includes(trim(texts[1]), never)
            THEN Append(acc, trim(texts[1])) ELSE acc,
            over, under, never)

\* The loop that fills the specifications from table rows: rows with an empty
\* key or value are skipped, a later row replaces an earlier one with its key.
\* The object is held as a set of <<key, value>>.
RECURSIVE CollectSpecs(_, _, _)
CollectSpecs(rows, acc, distinct) ==
    IF Len(rows) = 0 THEN acc
    ELSE CollectSpecs(Tail(rows),
            IF /\ trim(rows[1][1]) # ""
               /\ trim(rows[1][2]) # ""
               /\ distinct => trim(rows[1][1]) # trim(rows[1][2])
            THEN { kv \in acc : kv[1] # trim(rows[1][1]) }
                    \cup { <<trim(rows[1][1]), trim(rows[1][2])>> }
            ELSE acc,
            distinct)

\* parseFloat(ratingText) || 0, in hundredths.
AverageOf(ratingText) ==
    IF parseFloatText(ratingText) = NaN THEN 0 ELSE parseFloatText(ratingText)

\* a || b || ... || '' over attribute values.
RECURSIVE FirstTruthy(_)
FirstTruthy(texts) ==
    IF Len(texts) = 0 THEN ""
    ELSE IF texts[1] # "" THEN texts[1]
    ELSE FirstTruthy(Tail(texts))

\* Position of the first occurrence of pat in s, 0 when there is none.
IndexOf(s, pat) ==
    IF includes(s, pat)
    THEN CHOOSE i \in 1..(Len(s) - Len(pat) + 1) :
            /\ SubSeq(s, i, i + Len(pat) - 1) = pat
            /\ \A j \in 1..(i - 1) : SubSeq(s, j, j + Len(pat) - 1) # pat
    ELSE 0

\* s.replace(pat, by) for a string pattern: the first occurrence only.
ReplaceFirst(s, pat, by) ==
    IF IndexOf(s, pat) = 0 THEN s
    ELSE SubSeq(s, 1, IndexOf(s, pat) - 1) \o by
            \o SubSeq(s, IndexOf(s, pat) + Len(pat), Len(s))

\* Length of the longest prefix of s without a dot.
RECURSIVE NoDotRun(_)
NoDotRun(s) ==
    IF Len(s) > 0 /\ Char(s, 1) # "." THEN 1 + NoDotRun(SubSeq(s, 2, Len(s)))
    ELSE 0

\* src.replace(/\._[^.]+\./, '.'): the first "._", some characters other
\* than a dot, and a dot become one dot.
RECURSIVE DropSizeTag(_)
DropSizeTag(s) ==
    IF Len(s) < 4 THEN s
    ELSE IF /\ SubSeq(s, 1, 2) = "._"
            /\ NoDotRun(SubSeq(s, 3, Len(s))) > 0
            /\ NoDotRun(SubSeq(s, 3, Len(s))) < Len(s) - 2
         THEN "." \o SubSeq(s, NoDotRun(SubSeq(s, 3, Len(s))) + 4, Len(s))
    ELSE Char(s, 1) \o DropSizeTag(SubSeq(s, 2, Len(s)))

\* The address the Amazon extractor takes from an image element: the largest
\* entry of data-a-dynamic-image when there is one, else data-old-hires, else
\* src; without its size tag.
AmazonImage(el) ==
    DropSizeTag(FirstTruthy(<<el.dynamic, el.hires, el.src>>))

\* The address the Flipkart extractor takes: src in its high resolution.
FlipkartImage(el) ==
    ReplaceFirst(ReplaceFirst(el.src, "/128/", "/832/"), "/416/", "/832/")

\* ratingText.match(/([\d.]+)/) ? parseFloat(match[1]) : 0, in hundredths.
AmazonAverage(ratingText) ==
    IF FirstDigitDotPos(ratingText) = 0 THEN 0
    ELSE LET rest == SubSeq(ratingText, FirstDigitDotPos(ratingText),
                            Len(ratingText))
         IN RoundParseFloat(SubSeq(rest, 1, DigitDotRun(rest)), 100)

\* Length of the longest prefix of s made of digits and commas.
RECURSIVE DigitCommaRun(_)
DigitCommaRun(s) ==
    IF Len(s) > 0 /\ (IsDigit(Char(s, 1)) \/ Char(s, 1) = ",")
    THEN 1 + DigitCommaRun(SubSeq(s, 2, Len(s))) ELSE 0

\* Length of the longest prefix of s made of white space.
RECURSIVE SpaceRun(_)
SpaceRun(s) ==
    IF Len(s) > 0 /\ IsSpace(Char(s, 1)) THEN 1 + SpaceRun(SubSeq(s, 2, Len(s)))
    ELSE 0

\* countText.match(/([\d,]+)\s*(ratings?|reviews?)/i): the digits and commas
\* of the first match, "" when there is none.
RECURSIVE FlipkartCountMatch(_)
FlipkartCountMatch(s) ==
    IF Len(s) = 0 THEN ""
    ELSE LET n == DigitCommaRun(s)
             after == SubSeq(s, n + 1, Len(s))
             word == toLowerCase(Slice(SubSeq(after, SpaceRun(after) + 1,
                                              Len(after)), 6))
         IN IF n > 0 /\ word \in {"rating", "review"} THEN SubSeq(s, 1, n)
            ELSE FlipkartCountMatch(SubSeq(s, 2, Len(s)))

\* [f(xs[1]), f(xs[2]), ...] for the image elements of a page.
AmazonImages(els) == [i \in 1..Len(els) |-> AmazonImage(els[i])]
FlipkartImages(els) == [i \in 1..Len(els) |-> FlipkartImage(els[i])]
SrcOrDataSrc(els) == [i \in 1..Len(els) |-> FirstTruthy(<<els[i].src, els[i].dataSrc>>)]
SrcOnly(els) == [i \in 1..Len(els) |-> els[i].src]

\* The record an extractor returns.
ScrapedProduct(title, brand, price, images, specs, average, count, hls) ==
    [title |-> IF title # "" THEN title ELSE "Product",
     brand |-> brand,
     price |-> price,
     images |-> Slice(images, 6),
     specifications |-> specs,
     ratings |-> [average |-> average, count |-> count],
     highlights |-> Slice(hls, 6)]

\* Stands for the breadcrumb separator U+203A the Amazon extractor looks for.
Breadcrumb == ">"

\* What the extractors read of a product page: the texts (or attributes) the
\* selectors of each chain or loop yield, in the order of the code, and the
\* ld+json scripts.

\* s.replace(/^(Visit the |Brand: )/, '').
StripBrandPrefix(s) ==
    IF Slice(s, 10) = "Visit the " THEN SubSeq(s, 11, Len(s))
    ELSE IF Slice(s, 7) = "Brand: " THEN SubSeq(s, 8, Len(s))
    ELSE s

\* The brand of the Amazon extractor: the byline without its prefix, or else
\* the byline link.
AmazonBrand(texts) ==
    FirstNonEmpty(<<StripBrandPrefix(texts[1])>> \o Tail(texts))

\* The rating text of the Amazon extractor: the title attribute of the
\* popover as it is, or else the texts of the chain.
AmazonRatingText(texts) ==
    IF texts[1] # "" THEN texts[1] ELSE FirstNonEmpty(Tail(texts))

\* The price the Amazon extractor reads from the elements of the page: the
\* whole and fraction elements, or else the first price selector with a
\* price above 0.
amazonDomPrice(pg) ==
    LET priceWhole == DigitsOnly(pg.priceWhole)
        priceFraction == DigitsOnly(pg.priceFraction)
        method1 == IF priceWhole # ""
                   THEN parseFloatText(priceWhole \o "." \o
                            (IF priceFraction # "" THEN priceFraction ELSE "00"))
                   ELSE 0
    IN IF method1 = 0 THEN FirstPriceAbove(pg.priceTexts, 0, "") ELSE method1

\* The same for the Flipkart extractor: the first price selector with a price
\* above 0.
flipkartDomPrice(pg) == FirstPriceAbove(pg.priceTexts, 0, "")

\* The same for the four other extractors: the price of the first price
\* selector with a text.
chainDomPrice(pg) == parsePrice(FirstNonEmpty(pg.priceTexts))

\* Variant: the JSON-LD price is preferred to the price of the elements.
withJsonLdFallback_JsonLdFirst(domPrice, jsonLdPrice) ==
    IF jsonLdPrice # Null THEN jsonLdPrice.current ELSE domPrice

\* currentPrice after "if (currentPrice === 0 && jsonLdPrice)".
withJsonLdFallback(domPrice, jsonLdPrice) ==
    IF domPrice = 0 /\ jsonLdPrice # Null THEN jsonLdPrice.current
    ELSE domPrice

scrapeAmazonProduct(pg) ==
    LET currentPrice == withJsonLdFallback(amazonDomPrice(pg),
                                           extractPriceFromJsonLd(pg.jsonLd))
        found == CollectImages(AmazonImages(pg.images), << >>, "",
                               {"grey-pixel", "spinner"})
        images == IF Len(found) = 0 /\ FirstTruthy(pg.mainImages) # ""
                  THEN << FirstTruthy(pg.mainImages) >> ELSE found
        bullets == CollectHighlights(pg.highlights, << >>, 10, 500, Breadcrumb)
        highlights == IF Len(bullets) = 0
                      THEN CollectHighlights(pg.moreHighlights, << >>, 10, 500, "")
                      ELSE bullets
    IN ScrapedProduct(
          FirstNonEmpty(pg.titles),
          AmazonBrand(pg.brands),
          PriceOf(currentPrice, parsePrice(FirstNonEmpty(pg.originalTexts))),
          images,
          CollectSpecs(pg.moreSpecs, CollectSpecs(pg.specs, {}, FALSE), TRUE),
          AmazonAverage(AmazonRatingText(pg.ratingTexts)),
          parseRatingCount(FirstNonEmpty(pg.countTexts)),
          highlights)

scrapeFlipkartProduct(pg) ==
    LET currentPrice == withJsonLdFallback(flipkartDomPrice(pg),
                                           extractPriceFromJsonLd(pg.jsonLd))
        countMatch == FlipkartCountMatch(FirstNonEmpty(pg.countTexts))
    IN ScrapedProduct(
          FirstNonEmpty(pg.titles),
          FirstNonEmpty(pg.brands),
          PriceOf(currentPrice,
                  FirstPriceAbove(pg.originalTexts, currentPrice, "₹")),
          CollectImages(FlipkartImages(pg.images), << >>, "rukminim", {}),
          CollectSpecs(pg.specs, {}, FALSE),
          AverageOf(FirstNonEmpty(pg.ratingTexts)),
          IF countMatch # "" THEN parseRatingCount(countMatch) ELSE 0,
          CollectHighlights(pg.highlights, << >>, 5, 300, ""))

\* The shape the four remaining extractors share; they differ in their
\* selectors, in the attribute an image address is read from and in the text
\* an image address must contain.
scrapeByChains(pg, images) ==
    ScrapedProduct(
        FirstNonEmpty(pg.titles),
        FirstNonEmpty(pg.brands),
        PriceOf(chainDomPrice(pg), parsePrice(FirstNonEmpty(pg.originalTexts))),
        images,
        CollectSpecs(pg.specs, {}, FALSE),
        AverageOf(FirstNonEmpty(pg.ratingTexts)),
        parseRatingCount(FirstNonEmpty(pg.countTexts)),
        CollectHighlights(pg.highlights, << >>, 5, 0, ""))

scrapeCromaProduct(pg) ==
    scrapeByChains(pg, CollectImages(SrcOrDataSrc(pg.images), << >>, "", {}))

scrapeMeeshoProduct(pg) ==
    scrapeByChains(pg, CollectImages(SrcOnly(pg.images), << >>, "meesho", {}))

scrapeRelianceDigitalProduct(pg) ==
    scrapeByChains(pg, CollectImages(SrcOrDataSrc(pg.images), << >>, "", {}))

scrapeMyntraProduct(pg) ==
    scrapeByChains(pg, CollectImages(SrcOnly(pg.images), << >>, "", {}))

\* Variant: an extractor gives up on a page without a title.
extract_NullWithoutTitle(ex, fetchOk, pg) ==
    IF ~fetchOk \/ FirstNonEmpty(pg.titles) = "" THEN Null
    ELSE IF ex = "amazon" THEN scrapeAmazonProduct(pg)
    ELSE IF ex = "flipkart" THEN scrapeFlipkartProduct(pg)
    ELSE IF ex = "croma" THEN scrapeCromaProduct(pg)
    ELSE IF ex = "meesho" THEN scrapeMeeshoProduct(pg)
    ELSE IF ex = "reliancedigital" THEN scrapeRelianceDigitalProduct(pg)
    ELSE scrapeMyntraProduct(pg)

\* What the extractor named by the router returns once fetchPage has
\* settled: null from its catch block when fetchPage threw, else the record
\* read from the page.
extract(ex, fetchOk, pg) ==
    IF ~fetchOk THEN Null
    ELSE IF ex = "amazon" THEN scrapeAmazonProduct(pg)
    ELSE IF ex = "flipkart" THEN scrapeFlipkartProduct(pg)
    ELSE IF ex = "croma" THEN scrapeCromaProduct(pg)
    ELSE IF ex = "meesho" THEN scrapeMeeshoProduct(pg)
    ELSE IF ex = "reliancedigital" THEN scrapeRelianceDigitalProduct(pg)
    ELSE scrapeMyntraProduct(pg)

(* ---------------- index.ts: analyzeProduct and the merge ---------------- *)

\* Variant: the second operand is preferred.
OrStr_Second(a, b) == IF b # "" THEN b ELSE a

\* a || b for strings and for numbers.
OrStr(a, b) == IF a # "" THEN a ELSE b
OrNum(a, b) == IF a # 0 THEN a ELSE b

\* JavaScript truthiness of an optional number.
TruthyNum(o) == \E n \in o : n # 0

\* The JSON object the AI answer carries between its <JSON_DATA> tags, as far
\* as analyzeProduct reads it: a missing text is "", a missing list is empty,
\* price and ratings are optional objects.
Parsed(title, brand, price, specs, ratings, hls) ==
    [title |-> title, brand |-> brand, price |-> price,
     specifications |-> specs, ratings |-> ratings, highlights |-> hls]

\* extractedData as analyzeProduct builds it from the parsed object and the
\* image addresses among the grounding sources.
extractedDataOf(parsed, imageUrls) ==
    [title |-> OrStr(parsed.title, "Product"),
     brand |-> OrStr(parsed.brand, ""),
     price |->
        [current |-> IF parsed.price = {} THEN 0
                     ELSE OrNum((CHOOSE q \in parsed.price : TRUE).current, 0),
         original |-> IF parsed.price = {} THEN Undefined
                      ELSE (CHOOSE q \in parsed.price : TRUE).original,
         currency |-> IF parsed.price = {} THEN "INR"
                      ELSE OrStr((CHOOSE q \in parsed.price : TRUE).currency, "INR")],
     images |-> Slice(imageUrls, 5),
     specifications |-> parsed.specifications,
     ratings |->
        [average |-> IF parsed.ratings = {} THEN 0
                     ELSE OrNum((CHOOSE q \in parsed.ratings : TRUE).average, 0),
         count |-> IF parsed.ratings = {} THEN 0
                   ELSE OrNum((CHOOSE q \in parsed.ratings : TRUE).count, 0)],
     highlights |-> parsed.highlights]

\* Length of the longest prefix of s without a character of cs.
RECURSIVE RunWithout(_, _)
RunWithout(s, cs) ==
    IF Len(s) > 0 /\ Char(s, 1) \notin cs
    THEN 1 + RunWithout(SubSeq(s, 2, Len(s)), cs) ELSE 0

\* new URL(u).hostname and .pathname for an address scheme://host/path?query
\* without user, port or characters that are percent-encoded.
AfterScheme(u) == SubSeq(u, IndexOf(u, "://") + 3, Len(u))
hostname(u) ==
    toLowerCase(SubSeq(AfterScheme(u), 1, RunWithout(AfterScheme(u), {"/", "?", "#"})))
pathname(u) ==
    LET rest == SubSeq(AfterScheme(u),
                       RunWithout(AfterScheme(u), {"/", "?", "#"}) + 1,
                       Len(AfterScheme(u)))
    IN SubSeq(rest, 1, RunWithout(rest, {"?", "#"}))

\* s.split('/').filter(Boolean).
RECURSIVE PathParts(_)
PathParts(s) ==
    IF Len(s) = 0 THEN << >>
    ELSE IF Char(s, 1) = "/" THEN PathParts(SubSeq(s, 2, Len(s)))
    ELSE << SubSeq(s, 1, RunWithout(s, {"/"})) >>
            \o PathParts(SubSeq(s, RunWithout(s, {"/"}) + 1, Len(s)))

\* part.match(/^[a-zA-Z0-9]{10}$/).
IsTenAlnum(part) ==
    /\ Len(part) = 10
    /\ \A i \in 1..10 :
          \/ IsDigit(Char(part, i))
          \/ Char(part, i) \in UpperSet
          \/ \E k \in 1..26 : Char(LowerChars, k) = Char(part, i)

\* s.replace(/c/g, by) for a character c.
RECURSIVE ReplaceChar(_, _, _)
ReplaceChar(s, c, by) ==
    IF Len(s) = 0 THEN ""
    ELSE (IF Char(s, 1) = c THEN by ELSE Char(s, 1))
            \o ReplaceChar(SubSeq(s, 2, Len(s)), c, by)

\* pathParts.find(part => part.length > 10 && !part.match(...)), "" when
\* there is none.
RECURSIVE FindProductPart(_)
FindProductPart(pathParts) ==
    IF Len(pathParts) = 0 THEN ""
    ELSE IF Len(pathParts[1]) > 10 /\ ~IsTenAlnum(pathParts[1]) THEN pathParts[1]
    ELSE FindProductPart(Tail(pathParts))

extractTitleFromUrl(u) ==
    LET productPart == FindProductPart(PathParts(pathname(u)))
    IN IF productPart # ""
       THEN ReplaceChar(ReplaceChar(productPart, "-", " "), "_", " ")
       ELSE "Product from " \o hostname(u)

\* productData.price.current:
\* scrapedData?.price?.current || extractedData?.price?.current || 0.
mergedCurrent(sc, aiCurrent) ==
    IF \E r \in sc : r # Null /\ r.price.current # 0
    THEN (CHOOSE r \in sc : TRUE).price.current
    ELSE aiCurrent

\* productData of the analyze handler, from scrapedData (sc: the set holding
\* null or the record), extractedData (ex: empty when undefined) and the url.
productData(u, marketplace, sc, ex) ==
    LET has == \E r \in sc : r # Null
        s == CHOOSE r \in sc : TRUE
        e == CHOOSE r \in ex : TRUE
    IN [title |-> OrStr(IF has THEN s.title ELSE "",
                        OrStr(IF ex # {} THEN e.title ELSE "",
                              extractTitleFromUrl(u))),
        brand |-> OrStr(IF has THEN s.brand ELSE "",
                        IF ex # {} THEN e.brand ELSE ""),
        price |->
           [current |-> mergedCurrent(sc, IF ex # {} THEN e.price.current ELSE 0),
            original |-> IF has /\ TruthyNum(s.price.original)
                         THEN s.price.original
                         ELSE IF ex # {} THEN e.price.original ELSE Undefined,
            currency |-> OrStr(IF has THEN s.price.currency ELSE "",
                               OrStr(IF ex # {} THEN e.price.currency ELSE "",
                                     "INR"))],
        images |-> IF has /\ Len(s.images) # 0 THEN s.images
                   ELSE IF ex # {} THEN e.images ELSE << >>,
        specifications |-> IF has /\ s.specifications # {} THEN s.specifications
                           ELSE IF ex # {} THEN e.specifications ELSE {},
        ratings |->
           [average |-> OrNum(IF has THEN s.ratings.average ELSE 0,
                              IF ex # {} THEN e.ratings.average ELSE 0),
            count |-> OrNum(IF has THEN s.ratings.count ELSE 0,
                            IF ex # {} THEN e.ratings.count ELSE 0)],
        highlights |-> IF has /\ Len(s.highlights) # 0 THEN s.highlights
                       ELSE IF ex # {} THEN e.highlights ELSE << >>,
        source |-> [marketplace |-> marketplace, url |-> u]]

(* ---------------- scraper.ts: price search ---------------- *)

\* The four search functions, in the order searchProductPrices tests them.
SearchOrder == << "Amazon", "Flipkart", "Croma", "Reliance Digital" >>

Searchable == { SearchOrder[i] : i \in 1..Len(SearchOrder) }

\* The token each "Don't search the source marketplace" test looks for.
SearchToken(m) ==
    CASE m = "Amazon" -> "amazon"
      [] m = "Flipkart" -> "flipkart"
      [] m = "Croma" -> "croma"
      [] m = "Reliance Digital" -> "reliance"

\* Page the first result of each search function links to.
ResultUrl(m) ==
    CASE m = "Amazon" -> "https://www.amazon.in/dp/r"
      [] m = "Flipkart" -> "https://www.flipkart.com/r"
      [] m = "Croma" -> "https://www.croma.com/r"
      [] m = "Reliance Digital" -> "https://www.reliancedigital.in/r"

MarketplacePrice(store, price, u) ==
    [store |-> store, price |-> price, currency |-> "INR", url |-> u,
     availability |-> "in-stock"]

\* searchAmazonPrice, searchFlipkartPrice, searchCromaPrice and
\* searchReliancePrice: fetchOk is false when fetchPage throws (network error
\* or non-2xx), parsed is the price parsePrice found in the first result (0
\* when there is no result or no price).
\* Variant: the failure of the fetch is not caught by the search function.
searchPrice_Throws(m, fetchOk, parsed) ==
    IF ~fetchOk THEN Thrown
    ELSE IF parsed > 0 THEN MarketplacePrice(m, parsed, ResultUrl(m))
    ELSE Null

searchPrice(m, fetchOk, parsed) ==
    IF ~fetchOk THEN Null
    ELSE IF parsed > 0 THEN MarketplacePrice(m, parsed, ResultUrl(m))
    ELSE Null

\* Variant: the source is excluded by comparing whole names.
shouldSearch_ByName(m, source) == toLowerCase(m) # toLowerCase(source)

\* One test of the form !sourceMarketplace.toLowerCase().includes(token).
shouldSearch(m, source) == ~includes(toLowerCase(source), SearchToken(m))

\* Variant: the searches are started in the opposite order.
launched_Reversed(source) ==
    LET l == SelectSeq(SearchOrder, LAMBDA m : shouldSearch(m, source))
    IN [i \in 1..Len(l) |-> l[Len(l) + 1 - i]]

\* The marketplaces pushed on searchPromises, in order.
launched(source) == SelectSeq(SearchOrder, LAMBDA m : shouldSearch(m, source))

\* Variant: the timer resolves with what the searches have produced so far.
timeoutValue_Partial(results) == results

\* Value the timeoutPromise resolves with, whatever the searches (results)
\* have produced so far.
timeoutValue(results) == << >>

\* Variant: the timer is not raced against the batch.
onTimeout_NotRaced(r) == r

\* What the deadline timer does to the outcome of Promise.race.
onTimeout(r) == IF r = "pending" THEN "timeout" ELSE r

\* What a rejected search promise does, through Promise.all, to the outcome of
\* Promise.race.
onReject(r) == IF r = "pending" THEN "rejected" ELSE r

\* What the completion of the last search does to the outcome of Promise.race.
onAllSettled(r) == IF r = "pending" THEN "all" ELSE r

\* Variant: the source entry is added after the results.
addSuccessful_SourceLast(ps, results) ==
    SelectSeq(results, LAMBDA r : r # Null /\ r.price > 0) \o ps

\* Variant: the loop stops one result short.
addSuccessful_SkipsLast(ps, results) ==
    ps \o SelectSeq(SubSeq(results, 1, Len(results) - 1),
                    LAMBDA r : r # Null /\ r.price > 0)

\* The loop "Add successful results".
addSuccessful(ps, results) ==
    ps \o SelectSeq(results, LAMBDA r : r # Null /\ r.price > 0)

\* Value Promise.all(searchPromises) resolves with.
allValues == [i \in 1..Len(searchPromises) |-> op[searchPromises[i]].value]

\* fetches counts the calls of fetchPage the search function has made.
Idle == [status |-> "idle", fetch |-> "none", fetches |-> 0, value |-> Null]
Pending == [status |-> "pending", fetch |-> "pending", fetches |-> 1,
            value |-> Null]

\* The search promise after its function has returned or thrown v.
Settled(fetchOk, v) ==
    [status |-> IF v = Thrown THEN "rejected" ELSE "settled",
     fetch |-> IF fetchOk THEN "ok" ELSE "failed",
     fetches |-> 1,
     value |-> v]

\* The search of m settling now overtakes a search launched before it.
Overtakes(m) ==
    \E i, k \in 1..Len(searchPromises) :
        /\ searchPromises[k] = m
        /\ i < k
        /\ op[searchPromises[i]].status = "pending"

\* A promise continuation of searchProductPrices is ready to run.
ContinuationReady == pc = "awaiting" /\ race \in {"all", "timeout", "rejected"}

TypeOK ==
    /\ pc \in {"idle", "scraping", "analyzing", "merging", "awaiting", "done"}
    /\ entry \in {"none", "analyze", "direct", "scrape"}
    /\ scrapeFetch \in {"none", "pending", "settled"}
    /\ pageFetches \in {0, 1}
    /\ timer \in {"unset", "armed", "fired"}
    /\ race \in {"unset", "pending", "all", "timeout", "rejected"}
    /\ sourcePrice \in Nat
    /\ status \in {0, 200, 400, 500}
    /\ DOMAIN op = Searchable

\* An image element.
Img(hires, dynamic, src, dataSrc) ==
    [hires |-> hires, dynamic |-> dynamic, src |-> src, dataSrc |-> dataSrc]

\* An offer, a Product (or other) item and an ld+json script.
Offer(price, lowPrice, highPrice) ==
    [price |-> price, lowPrice |-> lowPrice, highPrice |-> highPrice]
Item(type, offers) == [type |-> type, offers |-> offers]
Script(items) == [kind |-> "json", items |-> items]
EmptyScript == [kind |-> "empty", items |-> << >>]
MalformedScript == [kind |-> "malformed", items |-> << >>]

\* What a page can have where the title is looked for, ...
TitleOptions == { <<"", "">>, <<" Phone ", "Case">>, <<"", "Phone">> }

\* ... where the current price is looked for, ...
PriceOptions ==
    { [whole |-> "", fraction |-> "", texts |-> <<"", "">>],
      [whole |-> "1,299.", fraction |-> "50", texts |-> <<"₹999", "">>],
      [whole |-> "0", fraction |-> "", texts |-> <<"", "₹1,299.50">>],
      [whole |-> "", fraction |-> "", texts |-> <<"N/A", "₹999">>],
      [whole |-> "", fraction |-> "", texts |-> <<"Free", "">>] }

\* ... in its ld+json scripts, ...
JsonLdOptions ==
    { << >>,
      << Script(<< Item("Product",
                        << Offer(JStr("1499.00"), Undefined, Undefined) >>) >>) >>,
      << MalformedScript,
         Script(<< Item("Product",
                        << Offer(JNum(149900), Undefined, Undefined) >>) >>) >>,
      << EmptyScript,
         Script(<< Item("Organization", << >>),
                   Item("ProductGroup",
                        << Offer(Undefined, Undefined, Undefined),
                           Offer(JNum(0), JNum(149900), JNum(199900)) >>) >>) >>,
      << Script(<< Item("null", << >>),
                   Item("Product",
                        << Offer(JNum(149900), Undefined, Undefined) >>) >>) >>,
      << Script(<< Item("Product",
                        << Offer(JStr("call us"), Undefined, Undefined) >>) >>) >>,
      << MalformedScript, EmptyScript >>,
      << Script(<< Item("null", << >>) >>), MalformedScript,
         Script(<< Item("Product",
                        << Offer(JStr("1499.00"), Undefined, Undefined) >>) >>) >> }

\* ... where the original price is looked for, ...
OriginalOptions ==
    { <<"", "">>, <<"₹1,999", "">>, <<"₹500", "₹2,499">>, <<"1,999", "">>,
      <<"MRP: ₹999", "">> }

\* ... and in the rest of it.
ContentOptions ==
    { [images |-> << >>, mainImages |-> <<"", "">>,
       specs |-> << >>, moreSpecs |-> << >>,
       highlights |-> << >>, moreHighlights |-> << >>,
       brands |-> <<"", "">>, ratingTexts |-> <<"", "">>,
       countTexts |-> <<"", "">>],
      [images |-> << Img("", "", "rukminim.meesho/128/a._S9_.jpg", ""),
                     Img("", "", "rukminim.meesho/128/a._S9_.jpg", ""),
                     Img("", "", "", "rukminim.meesho/b.jpg"),
                     Img("hi.jpg", "rukminim.meesho/dyn.jpg", "lo.jpg", ""),
                     Img("", "", "grey-pixel.gif", "") >>,
       mainImages |-> <<"", "main.jpg">>,
       specs |-> << <<"RAM", "8 GB">>, <<"RAM", "12 GB">>, <<"", "x">> >>,
       moreSpecs |-> << <<"Same", "Same">>, <<"Colour", "Blue">> >>,
       highlights |-> << "Fast", "6.1 inch display", "Home > Phones > Apple" >>,
       moreHighlights |-> << "About this item" >>,
       brands |-> <<"Visit the Acme Store", "Acme">>,
       ratingTexts |-> <<"4.3 out of 5 stars", "">>,
       countTexts |-> <<"1,234 ratings", "">>],
      [images |-> << Img("", "", "grey-pixel.gif", "") >>,
       mainImages |-> <<"spinner.gif", "">>,
       specs |-> << >>, moreSpecs |-> << >>,
       highlights |-> << "Short", "5G ready" >>,
       moreHighlights |-> << "Long battery life", "Two year warranty" >>,
       brands |-> <<"Acme", "">>, ratingTexts |-> <<"", "4.5">>,
       countTexts |-> <<"2.5K ratings", "">>],
      [images |-> [i \in 1..7 |->
                     Img("", "", "rukminim.meesho/416/" \o Char(Digits, i) \o ".jpg", "")],
       mainImages |-> <<"", "">>,
       specs |-> << <<"RAM", "8 GB">> >>, moreSpecs |-> << >>,
       highlights |-> [i \in 1..7 |-> "Highlight no " \o Char(Digits, i)],
       moreHighlights |-> << >>,
       brands |-> <<"", "">>, ratingTexts |-> <<"No ratings yet.", "">>,
       countTexts |-> <<"Be the first to review.", "">>] }

\* The page these parts make.
PageOf(title, price, jsonLd, original, content) ==
    [titles |-> title, priceWhole |-> price.whole,
     priceFraction |-> price.fraction, priceTexts |-> price.texts,
     jsonLd |-> jsonLd, originalTexts |-> original,
     images |-> content.images, mainImages |-> content.mainImages,
     specs |-> content.specs, moreSpecs |-> content.moreSpecs,
     highlights |-> content.highlights,
     moreHighlights |-> content.moreHighlights,
     brands |-> content.brands, ratingTexts |-> content.ratingTexts,
     countTexts |-> content.countTexts]

\* The page on which no selector finds anything.
BlankPage ==
    PageOf(<<"", "">>, [whole |-> "", fraction |-> "", texts |-> <<"", "">>],
           << >>, <<"", "">>,
           [images |-> << >>, mainImages |-> <<"", "">>,
            specs |-> << >>, moreSpecs |-> << >>,
            highlights |-> << >>, moreHighlights |-> << >>,
            brands |-> <<"", "">>, ratingTexts |-> <<"", "">>,
            countTexts |-> <<"", "">>])

\* The pages scrapeProduct receives: every combination of title, prices and
\* scripts on a page without anything else, and every other content with
\* every title.
Pages ==
    { [BlankPage EXCEPT !.titles = t, !.priceWhole = p.whole,
                        !.priceFraction = p.fraction, !.priceTexts = p.texts,
                        !.jsonLd = j, !.originalTexts = o] :
          t \in TitleOptions, p \in PriceOptions, j \in JsonLdOptions,
          o \in OriginalOptions }
    \cup
    { PageOf(t, p, << >>, <<"₹1,999", "">>, c) :
          t \in TitleOptions, c \in ContentOptions,
          p \in { q \in PriceOptions : q.whole # "" } }

\* A price in hundredths as a page prints it.
PriceText(p) ==
    "₹" \o NatToStr(p \div 100) \o "." \o NatToStr((p % 100) \div 10)
        \o NatToStr(p % 10)

\* The pages of the requests: a title and the price p.
RequestPage(p) ==
    [BlankPage EXCEPT !.titles = <<"Phone", "">>,
                      !.priceTexts = <<PriceText(p), "">>]

\* The URLs scrapeProduct is called with.
ScrapeUrls ==
    { "https://www.amazon.in/dp/B0", "https://WWW.FLIPKART.COM/p/1",
      "https://www.croma.com/p/1", "https://www.meesho.com/p/1",
      "https://www.reliancedigital.in/p/1", "https://www.myntra.com/1",
      "https://shop.example/p/1", "https://www.reliance.example/p",
      "https://www.flipkart.com/amazon-basics/p",
      "https://www.myntra.com/croma?ref=Meesho" }

(* ---------------- frontend: the state of the page ---------------- *)

\* transformResponse(backend): the product loses brand and model, and each
\* entry of prices becomes a store named by its store field.
transformResponse(backend) ==
    [product |->
        [title |-> backend.product.title,
         images |-> backend.product.images,
         price |-> backend.product.price,
         specifications |-> backend.product.specifications,
         ratings |-> backend.product.ratings,
         highlights |-> backend.product.highlights,
         source |-> backend.product.source],
     priceComparison |->
        [stores |->
            [i \in 1..Len(backend.prices) |->
                [name |-> backend.prices[i].store,
                 price |-> backend.prices[i].price,
                 currency |-> backend.prices[i].currency,
                 availability |-> backend.prices[i].availability,
                 url |-> backend.prices[i].url,
                 savings |-> backend.prices[i].savings,
                 isBestPrice |-> backend.prices[i].isBestPrice]]]]

\* Place of stores[i] after [...stores].sort((a, b) => a.price - b.price):
\* the sort is stable, so an entry follows every cheaper entry and every
\* entry of its own price that stood before it.
PlaceOf(stores, i) ==
    1 + Cardinality({ j \in 1..Len(stores) :
                        \/ stores[j].price < stores[i].price
                        \/ stores[j].price = stores[i].price /\ j < i })

\* sortedStores of the PriceComparison component.
sortedStores(stores) ==
    [k \in 1..Len(stores) |->
        stores[CHOOSE i \in 1..Len(stores) : PlaceOf(stores, i) = k]]

\* The useState values of App, and of AskAI when it mounts; a value that can
\* be null is a set, {} for null.
FreshApp == [isLoading |-> FALSE, analysisResult |-> {}, error |-> {}]
FreshAskAI == [question |-> "", answer |-> {}, isLoading |-> FALSE,
               confidence |-> {}]

\* The message handleAnalyze sets when api.analyzeProduct throws.
AnalyzeFailed == "Failed to analyze product. Please try again."

\* The message handleAsk sets when api.askAI throws.
Apology == "Sorry, I couldn't process your question. Please try again."

\* Variant: the form submits whatever isLoading is.
canSubmit_WhileLoading(u, loading) == trim(u) # ""

\* The test of URLInput.handleSubmit and of AskAI.handleAsk:
\* if (!url.trim() || isLoading) return.
canSubmit(u, loading) == trim(u) # "" /\ ~loading

\* askQuestion of the backend, for the text the model answered with: the
\* confidence is always 0.85, held here in hundredths.
askQuestion(answerText) ==
    [answer |-> OrStr(answerText, "I couldn't generate an answer. Please try again."),
     confidence |-> 85]

\* The page has just been loaded: App is mounted on its landing view, nothing
\* has been typed and no request has been made.
PageLoaded ==
    /\ app = FreshApp
    /\ urlInput = [url |-> ""]
    /\ askAI = FreshAskAI
    /\ committed = [app |-> FreshApp, askAI |-> FreshAskAI]
    /\ analyzeFetches = 0
    /\ askFetches = 0
    /\ confidenceFrom = {}
    /\ clearedError = FALSE

(* ---------------- index.ts and scraper.ts: the request ---------------- *)

\* No request has been received.
NoRequest ==
    /\ pc = "idle"
    /\ entry = "none"
    /\ url = ""
    /\ sourceMarketplace = ""
    /\ sourcePrice = 0
    /\ searchPromises = << >>
    /\ op = [m \in Searchable |-> Idle]
    /\ timer = "unset"
    /\ race = "unset"
    /\ searchedPrices = << >>
    /\ prices = << >>
    /\ status = 0
    /\ settledAtReturn = {}
    /\ overtook = FALSE
    /\ extractor = "none"
    /\ scrapeFetch = "none"
    /\ pageFetches = 0
    /\ page = Undefined
    /\ jsonLdResult = Undefined
    /\ scraped = Undefined
    /\ aiAnalysis = Undefined
    /\ product = Undefined

\* A text that was not built from parts.
NoParts == [kind |-> "free"]

\* No parser has been called.
NoParse ==
    /\ text = ""
    /\ parts = NoParts
    /\ priceOut = Undefined
    /\ countOut = Undefined

Init == NoRequest /\ NoParse /\ PageLoaded

\* The synchronous part of searchProductPrices(title, source, price, u): the
\* source entry is pushed, the searches are started, the timer is armed and
\* the function awaits Promise.race.
CallSearch(source, price, u) ==
    /\ sourceMarketplace' = source
    /\ sourcePrice' = price
    /\ url' = u
    /\ searchPromises' = launched(source)
    /\ op' = [m \in Searchable |->
                IF \E i \in 1..Len(launched(source)) : launched(source)[i] = m
                THEN Pending ELSE Idle]
    /\ timer' = "armed"
    /\ race' = IF Len(launched(source)) = 0 THEN "all" ELSE "pending"
    /\ pc' = "awaiting"

\* scrapeProduct(u) up to its first await: the router returns null for a URL
\* without a token, or the extractor it names issues its page fetch.
StartScrape(u) ==
    IF route(u) = "none"
    THEN /\ scraped' = {Null}
         /\ UNCHANGED <<extractor, scrapeFetch, pageFetches, page, jsonLdResult>>
    ELSE /\ extractor' = route(u)
         /\ scrapeFetch' = "pending"
         /\ pageFetches' = pageFetches + 1
         /\ UNCHANGED <<page, jsonLdResult, scraped>>

\* POST /api/analyze up to the first await: the url check, detectMarketplace
\* and the call of scrapeProduct.
Analyze(u) ==
    /\ pc = "idle"
    /\ entry' = "analyze"
    /\ url' = u
    /\ IF u = ""
       THEN /\ status' = 400
            /\ pc' = "done"
            /\ UNCHANGED <<sourceMarketplace, scrapeVars>>
       ELSE /\ sourceMarketplace' = detectMarketplace(u)
            /\ StartScrape(u)
            /\ pc' = IF route(u) = "none" THEN "analyzing" ELSE "scraping"
            /\ UNCHANGED status
    /\ UNCHANGED <<sourcePrice, searchPromises, op, timer, race,
                   searchedPrices, prices, settledAtReturn, overtook>>
    /\ UNCHANGED parseVars
    /\ UNCHANGED pageVars
    /\ UNCHANGED mergeVars

\* The page fetch of the extractor settles and scrapeProduct returns.
ScrapeSettles(fetchOk, pg) ==
    /\ scrapeFetch = "pending"
    /\ scrapeFetch' = "settled"
    /\ page' = IF fetchOk THEN {pg} ELSE Undefined
    /\ jsonLdResult' = IF fetchOk /\ extractor \in {"amazon", "flipkart"}
                      THEN {extractPriceFromJsonLd(pg.jsonLd)} ELSE Undefined
    /\ scraped' = {extract(extractor, fetchOk, pg)}
    /\ pc' = IF entry = "analyze" THEN "analyzing" ELSE "done"
    /\ UNCHANGED <<entry, url, sourceMarketplace, sourcePrice, searchPromises,
                   op, timer, race, searchedPrices, prices, status,
                   settledAtReturn, overtook, extractor, pageFetches>>
    /\ UNCHANGED parseVars
    /\ UNCHANGED pageVars
    /\ UNCHANGED mergeVars

\* geminiAnalyze settles: it throws, or it returns its analysis with
\* extractedData (empty when the answer carried no JSON that parses).
AnalysisSettles(aiOk, extractedData) ==
    /\ pc = "analyzing"
    /\ aiAnalysis' = {IF aiOk THEN [extractedData |-> extractedData] ELSE Thrown}
    /\ pc' = "merging"
    /\ UNCHANGED <<entry, url, sourceMarketplace, sourcePrice, searchPromises,
                   op, timer, race, searchedPrices, prices, status,
                   settledAtReturn, overtook, product>>
    /\ UNCHANGED parseVars
    /\ UNCHANGED pageVars
    /\ UNCHANGED scrapeVars

\* The handler continues after geminiAnalyze: the rejection is answered with
\* 500, or productData is built and searchProductPrices is called.  (The page,
\* scrapedData and the analysis are not read after productData is built, and
\* are dropped here.)
Merge ==
    /\ pc = "merging"
    /\ page' = Undefined
    /\ jsonLdResult' = Undefined
    /\ scraped' = Undefined
    /\ aiAnalysis' = Undefined
    /\ UNCHANGED <<extractor, scrapeFetch, pageFetches>>
    /\ IF aiAnalysis # {Thrown}
       THEN LET built == productData(url, sourceMarketplace, scraped,
                             (CHOOSE a \in aiAnalysis : TRUE).extractedData)
            IN /\ product' = {built}
               /\ CallSearch(sourceMarketplace, built.price.current, url)
               /\ UNCHANGED status
       ELSE /\ status' = 500
            /\ pc' = "done"
            /\ UNCHANGED <<url, sourceMarketplace, sourcePrice, searchPromises,
                           op, timer, race, product>>
    /\ UNCHANGED <<entry, searchedPrices, prices, settledAtReturn, overtook>>
    /\ UNCHANGED parseVars
    /\ UNCHANGED pageVars

\* Another caller of the exported searchProductPrices.
DirectCall(source, price, u) ==
    /\ pc = "idle"
    /\ entry' = "direct"
    /\ CallSearch(source, price, u)
    /\ UNCHANGED <<searchedPrices, prices, status, settledAtReturn, overtook>>
    /\ UNCHANGED parseVars
    /\ UNCHANGED pageVars
    /\ UNCHANGED scrapeVars
    /\ UNCHANGED mergeVars

\* Variant: a search pushes its result on the shared list itself.
SearchSettles_Pushes(m, fetchOk, parsed) ==
    /\ op[m].status = "pending"
    /\ ~ContinuationReady
    /\ op' = [op EXCEPT ![m] = Settled(fetchOk, searchPrice(m, fetchOk, parsed))]
    /\ race' = IF searchPrice(m, fetchOk, parsed) = Thrown THEN onReject(race)
               ELSE IF \A k \in Searchable \ {m} : op[k].status # "pending"
               THEN onAllSettled(race) ELSE race
    /\ searchedPrices' = IF pc = "done" /\ searchPrice(m, fetchOk, parsed) # Null
                         THEN Append(searchedPrices, searchPrice(m, fetchOk, parsed))
                         ELSE searchedPrices
    /\ UNCHANGED <<pc, entry, url, sourceMarketplace, sourcePrice,
                   searchPromises, timer, prices, status, settledAtReturn>>
    /\ overtook' = (overtook \/ Overtakes(m))
    /\ UNCHANGED parseVars
    /\ UNCHANGED pageVars
    /\ UNCHANGED scrapeVars
    /\ UNCHANGED mergeVars

\* Variant: a search function fetches a second time after a failed fetch.
SearchSettles_Retries(m, fetchOk, parsed) ==
    /\ op[m].status = "pending"
    /\ ~ContinuationReady
    /\ IF ~fetchOk /\ op[m].fetches = 1
       THEN /\ op' = [op EXCEPT ![m].fetches = 2]
            /\ UNCHANGED race
       ELSE /\ op' = [op EXCEPT ![m] = Settled(fetchOk, searchPrice(m, fetchOk, parsed))]
            /\ race' = IF \A k \in Searchable \ {m} : op[k].status # "pending"
                       THEN onAllSettled(race) ELSE race
    /\ UNCHANGED <<pc, entry, url, sourceMarketplace, sourcePrice,
                   searchPromises, timer, searchedPrices, prices, status,
                   settledAtReturn>>
    /\ overtook' = (overtook \/ Overtakes(m))
    /\ UNCHANGED parseVars
    /\ UNCHANGED pageVars
    /\ UNCHANGED scrapeVars
    /\ UNCHANGED mergeVars

\* The fetch of one search function settles and the function returns.
SearchSettles(m, fetchOk, parsed) ==
    /\ op[m].status = "pending"
    /\ ~ContinuationReady
    /\ op' = [op EXCEPT ![m] = Settled(fetchOk, searchPrice(m, fetchOk, parsed))]
    /\ race' = IF searchPrice(m, fetchOk, parsed) = Thrown THEN onReject(race)
               ELSE IF \A k \in Searchable \ {m} : op[k].status # "pending"
               THEN onAllSettled(race) ELSE race
    /\ UNCHANGED <<pc, entry, url, sourceMarketplace, sourcePrice,
                   searchPromises, timer, searchedPrices, prices, status,
                   settledAtReturn>>
    /\ overtook' = (overtook \/ Overtakes(m))
    /\ UNCHANGED parseVars
    /\ UNCHANGED pageVars
    /\ UNCHANGED scrapeVars
    /\ UNCHANGED mergeVars

\* setTimeout(() => resolve([]), 10000) fires.
Deadline ==
    /\ timer = "armed"
    /\ ~ContinuationReady
    /\ timer' = "fired"
    /\ race' = onTimeout(race)
    /\ UNCHANGED <<pc, entry, url, sourceMarketplace, sourcePrice,
                   searchPromises, op, searchedPrices, prices, status,
                   settledAtReturn, overtook>>
    /\ UNCHANGED parseVars
    /\ UNCHANGED pageVars
    /\ UNCHANGED scrapeVars
    /\ UNCHANGED mergeVars

\* Promise.race has settled: searchProductPrices adds the results and
\* returns; under /api/analyze the handler ranks the list, adds the
\* placeholders and sends the response.
Resume ==
    /\ ContinuationReady
    /\ LET results == IF race = "all" THEN allValues
                      ELSE IF race = "timeout" THEN timeoutValue(allValues)
                      ELSE << >>
           returned == addSuccessful(
                           << MarketplacePrice(sourceMarketplace, sourcePrice, url) >>,
                           results)
       IN /\ searchedPrices' = returned
          /\ IF entry = "analyze"
             THEN /\ prices' = responsePrices(returned, sourceMarketplace)
                  /\ status' = 200
             ELSE UNCHANGED <<prices, status>>
    /\ settledAtReturn' = { m \in Searchable :
                               op[m].status \in {"settled", "rejected"} }
    /\ UNCHANGED overtook
    /\ pc' = "done"
    /\ UNCHANGED <<entry, url, sourceMarketplace, sourcePrice, searchPromises,
                   op, timer, race>>
    /\ UNCHANGED parseVars
    /\ UNCHANGED pageVars
    /\ UNCHANGED scrapeVars
    /\ UNCHANGED mergeVars

DirectUrl == "https://shop.example/p"

\* The extractedData of an answer whose JSON carries the price c and nothing
\* else.
PricedData(c) ==
    extractedDataOf(
        Parsed("", "", {[current |-> c, original |-> Undefined, currency |-> ""]},
               {}, {}, << >>),
        << >>)

Next ==
    \/ \E u \in Urls : Analyze(u)
    \/ \E fetchOk \in BOOLEAN, p \in Prices : ScrapeSettles(fetchOk, RequestPage(p))
    \/ \E aiOk \in BOOLEAN, aiCurrent \in Prices :
          AnalysisSettles(aiOk, {PricedData(aiCurrent)})
    \/ Merge
    \/ \E source \in DirectNames, price \in Prices :
          DirectCall(source, price, DirectUrl)
    \/ \E m \in Searchable, fetchOk \in BOOLEAN, parsed \in Prices :
          SearchSettles(m, fetchOk, parsed)
    \/ Deadline
    \/ Resume

Spec == Init /\ [][Next]_vars

\* Termination does not depend on the prices found, so the behaviours checked
\* for it draw them from an unknown price and one known price.
FairPrices == {0, 50}

FairNext ==
    \/ \E u \in Urls : Analyze(u)
    \/ \E fetchOk \in BOOLEAN, p \in FairPrices :
          ScrapeSettles(fetchOk, RequestPage(p))
    \/ \E aiOk \in BOOLEAN, aiCurrent \in FairPrices :
          AnalysisSettles(aiOk, {PricedData(aiCurrent)})
    \/ Merge
    \/ \E source \in DirectNames, price \in FairPrices :
          DirectCall(source, price, DirectUrl)
    \/ \E m \in Searchable, fetchOk \in BOOLEAN, parsed \in FairPrices :
          SearchSettles(m, fetchOk, parsed)
    \/ Deadline
    \/ Resume

\* The timer of setTimeout always fires, and a ready continuation always runs;
\* nothing makes a fetch complete.
FairSpec ==
    Init /\ [][FairNext]_vars /\ WF_vars(Deadline) /\ WF_vars(Resume)

(* ---------------- the text parsers applied ---------------- *)

\* Longest text, in pieces, that is not built as a price or a count.
MaxPieces == 2

Pieces == {"₹", "$", "MRP", ":", "Rs", ".", "INR", ",", " ", "N/A", "7", "k"}

RECURSIVE Concat(_)
Concat(ss) == IF Len(ss) = 0 THEN "" ELSE ss[1] \o Concat(Tail(ss))

FreeTexts == UNION { { Concat(ss) : ss \in [1..n -> Pieces] } : n \in 0..MaxPieces }

\* Digits in groups of two, the way lakh and crore are written.
RECURSIVE GroupTwos(_)
GroupTwos(ds) ==
    IF Len(ds) <= 2 THEN ds
    ELSE GroupTwos(SubSeq(ds, 1, Len(ds) - 2)) \o ","
            \o SubSeq(ds, Len(ds) - 1, Len(ds))

\* Digits in groups of three.
RECURSIVE GroupThrees(_)
GroupThrees(ds) ==
    IF Len(ds) <= 3 THEN ds
    ELSE GroupThrees(SubSeq(ds, 1, Len(ds) - 3)) \o ","
            \o SubSeq(ds, Len(ds) - 2, Len(ds))

\* A numeral with its grouping commas.
Grouped(ds, grouping) ==
    IF grouping = "western" THEN GroupThrees(ds)
    ELSE IF grouping = "lakh" /\ Len(ds) > 3
         THEN GroupTwos(SubSeq(ds, 1, Len(ds) - 3)) \o ","
                 \o SubSeq(ds, Len(ds) - 2, Len(ds))
    ELSE ds

\* Price texts as the product pages print them: a prefix, the amount with its
\* grouping, a decimal part, and what follows the price.
PricePrefixes == {"", "₹", "$", "MRP: ", "Rs. ", "Rs.", "INR ", "MRP: Rs. "}

\* (12,34,567 is the largest: the integers of the model are 32 bits wide, and a
\* parsed price is held in hundredths.)
Amounts == {0, 5, 999, 2999, 123499, 1234567}

Fractions == { [text |-> "", hundredths |-> 0],
               [text |-> ".00", hundredths |-> 0],
               [text |-> ".5", hundredths |-> 50],
               [text |-> ".49", hundredths |-> 49],
               [text |-> ".994", hundredths |-> 99],
               [text |-> ".996", hundredths |-> 100] }

PriceTails == {"", " ₹9", "₹9"}

PriceParts ==
    [kind : {"price"}, prefix : PricePrefixes, n : Amounts,
     grouping : {"none", "western", "lakh"}, frac : Fractions,
     tail : PriceTails]

RenderPrice(p) ==
    p.prefix \o Grouped(NatToStr(p.n), p.grouping) \o p.frac.text \o p.tail

\* Rating-count texts: a number (given with its value in thousandths), a
\* magnitude letter, and what follows.
CountNumbers == { [text |-> "5", thousandths |-> 5000],
                  [text |-> "1.2", thousandths |-> 1200],
                  [text |-> "0.5", thousandths |-> 500],
                  [text |-> "12.34", thousandths |-> 12340],
                  [text |-> "1,234", thousandths |-> 1234000] }

CountParts ==
    [kind : {"count"}, num : CountNumbers, sep : {"", " "},
     suffix : {"", "k", "K", "m", "M"}, tail : {"", " ratings"}]

RenderCount(p) == p.num.text \o p.sep \o p.suffix \o p.tail

ParseInit ==
    /\ NoRequest
    /\ PageLoaded
    /\ priceOut = Undefined
    /\ countOut = Undefined
    /\ \/ \E p \in PriceParts : parts = p /\ text = RenderPrice(p)
       \/ \E p \in CountParts : parts = p /\ text = RenderCount(p)
       \/ \E t \in FreeTexts : parts = NoParts /\ text = t

\* Every variable of a request.
requestVars == <<pc, entry, url, sourceMarketplace, sourcePrice, searchPromises,
                 op, timer, race, searchedPrices, prices, status,
                 settledAtReturn, overtook, scrapeVars, mergeVars>>

\* parsePrice(text) is called and returns.
CallParsePrice ==
    /\ priceOut = Undefined
    /\ priceOut' = {parsePrice(text)}
    /\ UNCHANGED <<text, parts, countOut, requestVars, pageVars>>

\* parseRatingCount(text) is called and returns.
CallParseRatingCount ==
    /\ countOut = Undefined
    /\ countOut' = {parseRatingCount(text)}
    /\ UNCHANGED <<text, parts, priceOut, requestVars, pageVars>>

ParseNext == CallParsePrice \/ CallParseRatingCount

ParseSpec == ParseInit /\ [][ParseNext]_vars

(* ---------------- scrapeProduct called on its own ---------------- *)

\* A caller of the exported scrapeProduct.
ScrapeCall(u) ==
    /\ pc = "idle"
    /\ entry' = "scrape"
    /\ url' = u
    /\ StartScrape(u)
    /\ pc' = IF route(u) = "none" THEN "done" ELSE "scraping"
    /\ UNCHANGED <<sourceMarketplace, sourcePrice, searchPromises, op, timer,
                   race, searchedPrices, prices, status, settledAtReturn, overtook>>
    /\ UNCHANGED parseVars
    /\ UNCHANGED pageVars
    /\ UNCHANGED mergeVars

ScrapeNext ==
    \/ \E u \in ScrapeUrls : ScrapeCall(u)
    \/ \E fetchOk \in BOOLEAN, pg \in Pages : ScrapeSettles(fetchOk, pg)

ScrapeSpec == Init /\ [][ScrapeNext]_vars

(* ---------------- the merge of /api/analyze ---------------- *)

\* Product addresses: with a product name in the path, with the tokens of two
\* marketplaces, and without a token.
MergeUrls ==
    { "https://www.amazon.in/Acme-Phone_5G-128GB/dp/B0ABCDEFGH",
      "https://WWW.FLIPKART.COM/p/itm1",
      "https://www.myntra.com/croma?ref=Meesho",
      "https://www.croma.com/meesho-style/p",
      "https://reliancedigital.in/myntra",
      "https://shop.example/p/1" }

\* The pages met: nothing found; everything found; a price alone; an original
\* price without a current one.
MergePages ==
    { BlankPage,
      PageOf(<<" Phone ", "Case">>,
             [whole |-> "1,299.", fraction |-> "50", texts |-> <<"₹1,299.50", "">>],
             << >>, <<"₹1,999", "">>,
             [images |-> << Img("", "", "rukminim.meesho/128/a.jpg", "") >>,
              mainImages |-> <<"", "">>,
              specs |-> << <<"RAM", "8 GB">> >>, moreSpecs |-> << >>,
              highlights |-> << "6.1 inch display" >>, moreHighlights |-> << >>,
              brands |-> <<"Acme", "">>,
              ratingTexts |-> <<"4.3 out of 5 stars", "">>,
              countTexts |-> <<"1,234 ratings", "">>]),
      [BlankPage EXCEPT !.titles = <<"Phone", "">>,
                        !.priceWhole = "999", !.priceTexts = <<"₹999", "">>],
      [BlankPage EXCEPT !.titles = <<"Phone", "">>,
                        !.originalTexts = <<"₹1,999", "">>] }

\* The objects the AI answers carry: nothing but defaults; a full object
\* whose original price is above, below or equal to its price, or the 0 of
\* the prompt's template; an original price without a price.
AiPrices ==
    { [current |-> 150000, original |-> {180000}, currency |-> "INR"],
      [current |-> 150000, original |-> {120000}, currency |-> "INR"],
      [current |-> 150000, original |-> {0}, currency |-> ""],
      [current |-> 0, original |-> {90000}, currency |-> "INR"],
      [current |-> 150000, original |-> Undefined, currency |-> "USD"] }

ParsedAnswers ==
    { Parsed("", "", {}, {}, {}, << >>) }
    \cup
    { Parsed("AI Phone", "AI Brand", {q}, { <<"RAM", "6 GB">> },
             {[average |-> 410, count |-> 12]}, << "AI feature one" >>) :
          q \in AiPrices }

\* extractedData of the answers: undefined when the answer has no JSON that
\* parses, else built from the object, with or without image sources.
ExtractedOptions ==
    { Undefined }
    \cup { {extractedDataOf(a, << >>)} : a \in ParsedAnswers }
    \cup { {extractedDataOf(Parsed("AI Phone", "", {}, {}, {}, << >>),
                            [i \in 1..6 |-> "https://img.example/"
                                               \o Char(Digits, i) \o ".jpg"])} }

\* The prices the searches of these requests find.
MergeSearchPrices == {99900}

MergeNext ==
    \/ \E u \in MergeUrls : Analyze(u)
    \/ \E fetchOk \in BOOLEAN, pg \in MergePages : ScrapeSettles(fetchOk, pg)
    \/ \E aiOk \in BOOLEAN, ex \in ExtractedOptions : AnalysisSettles(aiOk, ex)
    \/ Merge
    \/ \E m \in Searchable, fetchOk \in BOOLEAN, parsed \in MergeSearchPrices :
          SearchSettles(m, fetchOk, parsed)
    \/ Deadline
    \/ Resume

MergeSpec == Init /\ [][MergeNext]_vars

(* ---------------- frontend: the page at work ---------------- *)

\* Most analyze and ask-ai requests the page is followed through at a time.
MaxFetches == 2

\* The landing view, which holds URLInput, or the results view, which holds
\* PriceComparison and AskAI, is on the page.
ResultsShown == committed.app.analysisResult # {}

\* React renders and commits the state a, f, q of App, URLInput and AskAI:
\* URLInput lives only in the landing view and AskAI only in the results view,
\* a component that is mounted starts from its useState values, and the
\* requests of an unmounted AskAI (n counts those of the mounted one) set
\* nothing any more.
Commit(a, f, q, n) ==
    LET stays == ResultsShown /\ a.analysisResult # {}
        lands == ~ResultsShown /\ a.analysisResult = {}
    IN /\ app' = a
       /\ urlInput' = IF lands THEN f ELSE [url |-> ""]
       /\ askAI' = IF stays THEN q ELSE FreshAskAI
       /\ askFetches' = IF stays THEN n ELSE 0
       /\ confidenceFrom' = IF stays THEN confidenceFrom ELSE {}
       /\ committed' = [app |-> a, askAI |-> IF stays THEN q ELSE FreshAskAI]

\* onChange of the URL input, which is disabled while isLoading.
TypeUrl(t) ==
    /\ ~ResultsShown
    /\ ~committed.app.isLoading
    /\ t # urlInput.url
    /\ Commit(app, [url |-> t], askAI, askFetches)
    /\ UNCHANGED <<analyzeFetches, clearedError>>
    /\ UNCHANGED <<requestVars, parseVars>>

\* The form of URLInput is submitted: handleSubmit passes its test and calls
\* handleAnalyze, which runs up to its await; React commits before the next
\* event.
SubmitUrl ==
    /\ ~ResultsShown
    /\ canSubmit(urlInput.url, committed.app.isLoading)
    /\ analyzeFetches < MaxFetches
    /\ analyzeFetches' = analyzeFetches + 1
    /\ clearedError' = (app.error # {})
    /\ Commit([app EXCEPT !.isLoading = TRUE, !.error = {}],
              urlInput, askAI, askFetches)
    /\ UNCHANGED <<requestVars, parseVars>>

\* api.analyzeProduct settles and handleAnalyze resumes: ok is false when
\* fetch rejects or the response is not ok.  The render React schedules for
\* the new state is a task of its own.
AnalyzeSettles(ok, backend) ==
    /\ analyzeFetches > 0
    /\ analyzeFetches' = analyzeFetches - 1
    /\ app' = IF ok
              THEN [app EXCEPT !.analysisResult = {transformResponse(backend)},
                               !.isLoading = FALSE]
              ELSE [app EXCEPT !.error = {AnalyzeFailed}, !.isLoading = FALSE]
    /\ UNCHANGED <<urlInput, askAI, committed, askFetches, confidenceFrom,
                   clearedError>>
    /\ UNCHANGED <<requestVars, parseVars>>

\* The render scheduled by a continuation runs.
Render ==
    /\ committed # [app |-> app, askAI |-> askAI]
    /\ Commit(app, urlInput, askAI, askFetches)
    /\ UNCHANGED <<analyzeFetches, clearedError>>
    /\ UNCHANGED <<requestVars, parseVars>>

\* "Back to search" is clicked: handleBackToSearch.
BackToSearch ==
    /\ ResultsShown
    /\ Commit([app EXCEPT !.analysisResult = {}, !.error = {}],
              urlInput, askAI, askFetches)
    /\ UNCHANGED <<analyzeFetches, clearedError>>
    /\ UNCHANGED <<requestVars, parseVars>>

\* onChange of the question input, which is disabled while isLoading.
TypeQuestion(t) ==
    /\ ResultsShown
    /\ ~committed.askAI.isLoading
    /\ t # askAI.question
    /\ Commit(app, urlInput, [askAI EXCEPT !.question = t], askFetches)
    /\ UNCHANGED <<analyzeFetches, clearedError>>
    /\ UNCHANGED <<requestVars, parseVars>>

\* handleAsk(q) up to its await, after it has passed its test.
handleAsk(q, asked) ==
    /\ canSubmit(q, committed.askAI.isLoading)
    /\ askFetches < MaxFetches
    /\ Commit(app, urlInput,
              [asked EXCEPT !.isLoading = TRUE, !.answer = {}],
              askFetches + 1)
    /\ UNCHANGED <<analyzeFetches, clearedError>>
    /\ UNCHANGED <<requestVars, parseVars>>

\* The form of AskAI is submitted: handleSubmit calls handleAsk(question).
SubmitQuestion ==
    /\ ResultsShown
    /\ handleAsk(committed.askAI.question, askAI)

\* A suggested question is clicked: setQuestion(q); handleAsk(q).
ClickSuggestion(q) ==
    /\ ResultsShown
    /\ handleAsk(q, [askAI EXCEPT !.question = q])

\* api.askAI settles and handleAsk resumes: ok is false when fetch rejects or
\* the response is not ok.
AskSettles(ok, response) ==
    /\ askFetches > 0
    /\ askFetches' = askFetches - 1
    /\ askAI' = IF ok
                THEN [askAI EXCEPT !.answer = {response.answer},
                                   !.confidence = {response.confidence},
                                   !.isLoading = FALSE]
                ELSE [askAI EXCEPT !.answer = {Apology}, !.isLoading = FALSE]
    /\ confidenceFrom' = IF ok THEN {response.answer} ELSE confidenceFrom
    /\ UNCHANGED <<app, urlInput, committed, analyzeFetches, clearedError>>
    /\ UNCHANGED <<requestVars, parseVars>>

\* What is typed into the URL input.
UrlTexts == { "", "  ", "https://www.flipkart.com/acme-phone/p/itm1" }

\* The product page the analyses of the page are about.
PageUrl == "https://www.flipkart.com/acme-phone/p/itm1"

\* The prices the searches of an analysis found, in launch order.
FoundLists ==
    { << >>,
      << MarketplacePrice("Amazon", 89900, ResultUrl("Amazon")) >>,
      << MarketplacePrice("Amazon", 129900, ResultUrl("Amazon")),
         MarketplacePrice("Croma", 99900, ResultUrl("Croma")) >> }

\* The 200 responses of /api/analyze for PageUrl: the product has the price c
\* (0 when neither the page nor the AI gave one) and the searches found the
\* list found.
BackendResponses ==
    { [product |-> productData(PageUrl, detectMarketplace(PageUrl), {Null},
                               {PricedData(c)}),
       prices |-> responsePrices(
                      << MarketplacePrice(detectMarketplace(PageUrl), c, PageUrl) >>
                          \o found,
                      detectMarketplace(PageUrl))] :
        c \in {0, 99900}, found \in FoundLists }

\* The questions AskAI suggests.
suggestedQuestions ==
    { "Is the battery life really that good?", "Are they worth the price?" }

\* What is typed into the question input.
QuestionTexts == { "", " ", "Does it have 5G?" }

\* The texts Gemini answers a question with; "" is an answer without text.
AnswerTexts == { "", "Yes, it does." }

AppNext ==
    \/ \E t \in UrlTexts : TypeUrl(t)
    \/ SubmitUrl
    \/ \E ok \in BOOLEAN, backend \in BackendResponses : AnalyzeSettles(ok, backend)
    \/ Render
    \/ BackToSearch
    \/ \E t \in QuestionTexts : TypeQuestion(t)
    \/ SubmitQuestion
    \/ \E q \in suggestedQuestions : ClickSuggestion(q)
    \/ \E ok \in BOOLEAN, t \in AnswerTexts : AskSettles(ok, askQuestion(t))

AppSpec == Init /\ [][AppNext]_vars

(* ---------------- properties ---------------- *)

\* /api/analyze has sent its 200 response.
Responded == entry = "analyze" /\ pc = "done" /\ status = 200

\* searchProductPrices has returned.
Returned == pc = "done" /\ race \in {"all", "timeout"}

PositiveIdx(ps) == { i \in 1..Len(ps) : ps[i].price > 0 }

\* Minimum over the entries with price > 0 (when there is one).
MinPositive(ps) == MinOf({ ps[i].price : i \in PositiveIdx(ps) })

Flagged(ps) == { i \in 1..Len(ps) : ps[i].isBestPrice }

Count(seq, x) == Cardinality({ i \in 1..Len(seq) : seq[i] = x })

\* C1: when some entry has price > 0, exactly one entry of the response is
\* flagged isBestPrice, and it is the first entry whose price is the minimum
\* over the entries with price > 0.
C1_ExactlyOneBestIsFirstMinPositive ==
    (Responded /\ PositiveIdx(prices) # {}) =>
        \E b \in 1..Len(prices) :
            /\ Flagged(prices) = {b}
            /\ prices[b].price = MinPositive(prices)
            /\ \A i \in 1..(b - 1) : prices[i].price # MinPositive(prices)

\* C2: an entry priced above the minimum positive price carries
\* savings = price - minPrice; an entry at the minimum or priced 0 carries no
\* savings.
C2_SavingsAgainstMinPositive ==
    Responded =>
        \A i \in 1..Len(prices) :
            /\ (PositiveIdx(prices) # {} /\ prices[i].price > MinPositive(prices))
                  => prices[i].savings = {prices[i].price - MinPositive(prices)}
            /\ (prices[i].price = 0
                  \/ (PositiveIdx(prices) # {}
                        /\ prices[i].price = MinPositive(prices)))
                  => prices[i].savings = Undefined

\* C3: an entry priced 0 is never flagged isBestPrice and never lowers the
\* minimum; when every price is 0 nothing is flagged and nothing has savings.
C3_ZeroPriceNeverBest ==
    Responded =>
        /\ \A i \in 1..Len(prices) : prices[i].price = 0 => ~prices[i].isBestPrice
        /\ \A i \in Flagged(prices) :
              PositiveIdx(prices) # {} => prices[i].price = MinPositive(prices)
        /\ PositiveIdx(prices) = {} =>
              \A i \in 1..Len(prices) :
                  ~prices[i].isBestPrice /\ prices[i].savings = Undefined

\* C4: a one-entry aggregated list is answered as that entry followed by one
\* to three placeholders (price 0, not best, no savings, not the source
\* marketplace); a longer list gets no placeholder.
C4_PlaceholdersOnlyForSingleEntry ==
    Responded =>
        IF Len(searchedPrices) = 1
        THEN /\ Len(prices) \in 2..4
             /\ prices[1].store = sourceMarketplace
             /\ prices[1].price = sourcePrice
             /\ prices[1].url = url
             /\ \A i \in 2..Len(prices) :
                   /\ prices[i].price = 0
                   /\ ~prices[i].isBestPrice
                   /\ prices[i].savings = Undefined
                   /\ toLowerCase(prices[i].store) # toLowerCase(sourceMarketplace)
        ELSE /\ Len(prices) = Len(searchedPrices)
             /\ \A i \in 1..Len(prices) :
                   /\ prices[i].store = searchedPrices[i].store
                   /\ prices[i].price = searchedPrices[i].price
                   /\ prices[i].url = searchedPrices[i].url

\* C4 witness: an Amazon product for which no other price was found.
C4_Witness ==
    /\ Responded
    /\ Len(searchedPrices) = 1
    /\ sourceMarketplace = "Amazon"
    /\ Len(prices) = 4

\* C5: the list searchProductPrices returns is never empty and starts with
\* the source observation built from its arguments.
C5_SourceEntryFirst ==
    Returned =>
        /\ Len(searchedPrices) >= 1
        /\ searchedPrices[1].store = sourceMarketplace
        /\ searchedPrices[1].price = sourcePrice
        /\ searchedPrices[1].url = url

\* C5 witness: a return with a failed search, a successful one and a source
\* priced above 0.
C5_Witness ==
    /\ Returned
    /\ sourcePrice > 0
    /\ Len(searchedPrices) > 1
    /\ \E m \in settledAtReturn : op[m].value = Null

\* C6: a return caused by the deadline yields the source entry alone.
C6_DeadlineReturnsSourceOnly ==
    (Returned /\ race = "timeout") => Len(searchedPrices) = 1

\* C6 witness: the deadline won although a search had already settled with a
\* positive price and another was still in flight.
C6_Witness ==
    /\ Returned
    /\ race = "timeout"
    /\ \E m \in settledAtReturn : op[m].value # Null /\ op[m].value.price > 0
    /\ \E m \in Searchable \ settledAtReturn : op[m].status # "idle"

\* C7: a call of searchProductPrices that is awaiting eventually returns.
C7_EventuallyReturns == (pc = "awaiting") ~> (pc = "done")

\* C7 witness: returned while a search is still in flight.
C7_Witness ==
    /\ Returned
    /\ race = "timeout"
    /\ \E m \in Searchable : op[m].status = "pending"

\* C8: after the return nothing a late search does changes the returned
\* list, the response or its status.
C8_LateCompletionHasNoEffect ==
    [][pc = "done" =>
          /\ searchedPrices' = searchedPrices
          /\ prices' = prices
          /\ status' = status]_vars

\* C8 witness: searches that settled after the return, one with a price and
\* one with a failure.
C8_Witness ==
    /\ Returned
    /\ \E m \in Searchable \ settledAtReturn :
          /\ op[m].status = "settled"
          /\ op[m].value # Null
    /\ \E m \in Searchable \ settledAtReturn :
          /\ op[m].status = "settled"
          /\ op[m].value = Null

\* The stores of the searches that settled with a record priced above 0.
SuccessfulStores ==
    { m \in Searchable : /\ op[m].status = "settled"
                         /\ op[m].value # Null
                         /\ op[m].value.price > 0 }

\* C9: when every search settled before the deadline, the returned list is
\* the source entry followed by exactly the successful results.
C9_AllSuccessfulResultsReturned ==
    (Returned /\ race = "all") =>
        /\ Len(searchedPrices) = 1 + Cardinality(SuccessfulStores)
        /\ searchedPrices[1].store = sourceMarketplace
        /\ searchedPrices[1].price = sourcePrice
        /\ \A m \in SuccessfulStores :
              \E i \in 2..Len(searchedPrices) : searchedPrices[i] = op[m].value
        /\ \A i \in 2..Len(searchedPrices) :
              \E m \in SuccessfulStores : searchedPrices[i] = op[m].value

\* C9 witness: a complete batch with a failed search and two successful ones.
C9_Witness ==
    /\ Returned
    /\ race = "all"
    /\ Cardinality(SuccessfulStores) >= 2
    /\ \E m \in Searchable : op[m].status = "settled" /\ op[m].value = Null

\* A search of m has been started.
Started(m) == op[m].status # "idle"

\* C10 as stated: one search per searchable marketplace whose name differs
\* from the source name ignoring case, none for the source.
C10_LaunchedByNameInequality ==
    (pc \in {"awaiting", "done"} /\ race # "unset") =>
        \A m \in Searchable :
            /\ Count(searchPromises, m) =
                  (IF toLowerCase(m) # toLowerCase(sourceMarketplace) THEN 1 ELSE 0)
            /\ Started(m) <=> (Count(searchPromises, m) = 1)

\* C10 amended: one search per searchable marketplace whose token (amazon,
\* flipkart, croma, reliance) does not occur in the lower-cased source name,
\* none for the others, all started by the time the function awaits.
C10_LaunchedByTokenAbsence ==
    (pc \in {"awaiting", "done"} /\ race # "unset") =>
        LET lower == toLowerCase(sourceMarketplace)
            expected == { m \in Searchable :
                            \/ m = "Amazon" /\ ~includes(lower, "amazon")
                            \/ m = "Flipkart" /\ ~includes(lower, "flipkart")
                            \/ m = "Croma" /\ ~includes(lower, "croma")
                            \/ m = "Reliance Digital" /\ ~includes(lower, "reliance") }
        IN \A m \in Searchable :
              /\ Count(searchPromises, m) = (IF m \in expected THEN 1 ELSE 0)
              /\ Started(m) <=> m \in expected

\* C10 witness: the function awaits with three searches in flight for a source
\* whose name is not a searchable marketplace's name but contains its token.
C10_Witness ==
    /\ pc = "awaiting"
    /\ sourceMarketplace = "Amazon.in"
    /\ Len(searchPromises) = 3
    /\ \A i \in 1..3 : op[searchPromises[i]].status = "pending"

\* The marketplaces whose search was launched.
LaunchedSet == { m \in Searchable : Started(m) }

\* C11: a search whose fetch failed contributes null for itself only: when
\* every launched search has completed before the deadline, the call has
\* returned a list that starts with the source entry, every failed search has
\* the value null, and every positive result of the other searches is in the
\* list.
C11_FailureIsNullOfThatSearchOnly ==
    (pc = "done" /\ searchPromises # << >> /\ settledAtReturn = LaunchedSet) =>
        /\ Len(searchedPrices) >= 1
        /\ searchedPrices[1] = MarketplacePrice(sourceMarketplace, sourcePrice, url)
        /\ \A m \in LaunchedSet :
              /\ op[m].fetch = "failed" => op[m].value = Null
              /\ op[m].fetch = "ok" /\ op[m].value # Null =>
                    \E i \in 2..Len(searchedPrices) : searchedPrices[i] = op[m].value

C11_Witness ==
    /\ pc = "done"
    /\ settledAtReturn = LaunchedSet
    /\ \E m \in LaunchedSet : op[m].fetch = "failed" /\ op[m].value = Null
    /\ \E m \in LaunchedSet :
          /\ op[m].fetch = "ok"
          /\ \E i \in 2..Len(searchedPrices) : searchedPrices[i] = op[m].value

HasDigit(s) == \E i \in 1..Len(s) : IsDigit(Char(s, i))

\* C18: parsePrice returns a number for every text, and exactly 0 for a text
\* that is empty or holds no digit.
C18_NoDigitGivesZero ==
    priceOut # Undefined =>
        /\ \E v \in priceOut : v >= 0
        /\ ~HasDigit(text) => priceOut = {0}

C18_Witness ==
    /\ priceOut = {0}
    /\ text # ""
    /\ ~HasDigit(text)
    /\ cleanPrice(text) # text

\* The value of a price text built from parts, in hundredths: its first
\* amount with its decimal part rounded to two digits.
ExpectedPrice(p) == p.n * 100 + p.frac.hundredths

\* C19: for a price text built from currency symbols or prefix words, digits
\* with Western or lakh/crore grouping and an optional decimal part,
\* parsePrice returns the value of the first number of the text, rounded to
\* two fractional digits, also when a second price follows.
C19_FirstPriceOfText ==
    (parts.kind = "price" /\ priceOut # Undefined) =>
        priceOut = {ExpectedPrice(parts)}

\* The count a rating-count text built from parts stands for.
ExpectedCount(p) ==
    IF p.suffix \in {"k", "K"} THEN p.num.thousandths
    ELSE IF p.suffix \in {"m", "M"} THEN p.num.thousandths * 1000
    ELSE (p.num.thousandths + 500) \div 1000

\* C20: for a text <number>[k|K|m|M], commas and whitespace ignored,
\* parseRatingCount returns the number times 1, 1,000 or 1,000,000 rounded to
\* the nearest integer, and it returns 0 for a text that holds no number.
C20_CountScaledOrZero ==
    countOut # Undefined =>
        /\ parts.kind = "count" => countOut = {ExpectedCount(parts)}
        /\ ~HasDigit(text) => countOut = {0}

\* The six tokens in the order the router is said to test them.
ClaimedOrder ==
    <<"amazon", "flipkart", "croma", "meesho", "reliancedigital", "myntra">>

\* The lower-cased URL of the call holds the i-th token.
HasToken(i) == includes(toLowerCase(url), ClaimedOrder[i])

\* scrapeProduct has been called.
ScrapeCalled == entry \in {"scrape", "analyze"} /\ url # ""

\* C12: for a URL that holds none of the six tokens, scrapeProduct returns
\* null and no page fetch is ever issued.
C12_NoTokenNoFetch ==
    (ScrapeCalled /\ \A i \in 1..6 : ~HasToken(i)) =>
        /\ pageFetches = 0
        /\ scrapeFetch = "none"
        /\ extractor = "none"
        /\ entry = "scrape" => (pc = "done" /\ scraped = {Null})

C12_Witness ==
    /\ entry = "scrape"
    /\ url # ""
    /\ \A i \in 1..6 : ~HasToken(i)
    /\ includes(toLowerCase(url), "reliance")
    /\ pc = "done"
    /\ scraped = {Null}
    /\ pageFetches = 0

\* C13: scrapeProduct delegates to the extractor of the first token, in the
\* order amazon, flipkart, croma, meesho, reliancedigital, myntra, that the
\* lower-cased URL holds, and to no other, also when the URL holds several.
C13_FirstTokenInFixedOrder ==
    (ScrapeCalled /\ \E i \in 1..6 : HasToken(i)) =>
        /\ \E i \in 1..6 : /\ HasToken(i)
                           /\ \A j \in 1..(i - 1) : ~HasToken(j)
                           /\ extractor = ClaimedOrder[i]
        /\ pageFetches = 1

C13_Witness ==
    /\ entry = "scrape"
    /\ HasToken(3) /\ HasToken(4) /\ HasToken(6)
    /\ url # toLowerCase(url)
    /\ extractor = "croma"
    /\ scrapeFetch = "settled"

\* C14: an extractor returns null exactly when its page fetch failed; for a
\* page on which nothing is found it returns a record with the title
\* "Product", the current price 0, no original price and no images,
\* specifications or highlights.
C14_NullIffFetchFailed ==
    (scrapeFetch = "settled" /\ scraped # Undefined) =>
        /\ scraped = {Null} <=> page = Undefined
        /\ page = {BlankPage} =>
              \A r \in scraped :
                  /\ r # Null
                  /\ r.title = "Product"
                  /\ r.price.current = 0
                  /\ r.price.original = Undefined
                  /\ r.images = << >>
                  /\ r.specifications = {}
                  /\ r.highlights = << >>

C14_Witness ==
    /\ entry = "scrape"
    /\ extractor = "myntra"
    /\ page = {BlankPage}
    /\ \E r \in scraped : r # Null /\ r.title = "Product" /\ r.price.current = 0

\* The original price an extractor reads from the page; the Flipkart
\* extractor reads none that is not above the current price.
ExtractedOriginal(pg) == parsePrice(FirstNonEmpty(pg.originalTexts))

\* C15: in every returned record the original price is absent or above the
\* current price; an original price read from the page that is not above the
\* current price is left out.
C15_OriginalAbsentOrAbove ==
    \A r \in scraped : r # Null =>
        /\ \A o \in r.price.original : o > r.price.current
        /\ \A pg \in page :
              (extractor # "flipkart" /\ ExtractedOriginal(pg) <= r.price.current)
                  => r.price.original = Undefined

C15_Witness ==
    \E r \in scraped, pg \in page :
        /\ r # Null
        /\ extractor = "croma"
        /\ ExtractedOriginal(pg) > 0
        /\ ExtractedOriginal(pg) <= r.price.current
        /\ r.price.original = Undefined

\* The price the extractor at work reads from the elements of a page.
DomPrice(pg) ==
    IF extractor = "amazon" THEN amazonDomPrice(pg)
    ELSE IF extractor = "flipkart" THEN flipkartDomPrice(pg)
    ELSE chainDomPrice(pg)

\* C16: for each of the six extractors, when the elements of the page give
\* the price 0 and the page embeds a JSON-LD Product with a valid offer
\* price, the current price of the record is the JSON-LD price.
C16_JsonLdFallbackEverywhere ==
    \A r \in scraped, pg \in page :
        (r # Null /\ DomPrice(pg) = 0 /\ extractPriceFromJsonLd(pg.jsonLd) # Null)
            => r.price.current = extractPriceFromJsonLd(pg.jsonLd).current

NoRepeat(xs) == \A i, j \in 1..Len(xs) : xs[i] = xs[j] => i = j

\* C21: every record an extractor returns has a non-empty title, at most 6
\* images none of which is repeated, and at most 6 highlights, each of 10 to
\* 500 characters.
C21_RecordShape ==
    \A r \in scraped : r # Null =>
        /\ r.title # ""
        /\ Len(r.images) <= 6
        /\ NoRepeat(r.images)
        /\ Len(r.highlights) <= 6
        /\ \A i \in 1..Len(r.highlights) :
              Len(r.highlights[i]) >= 10 /\ Len(r.highlights[i]) <= 500

\* scrapedData and extractedData as the handler holds them when it builds
\* productData.
HasScraped == \E r \in scraped : r # Null
ScrapedData == CHOOSE r \in scraped : TRUE
HasExtracted == \E a \in aiAnalysis : a # Thrown /\ a.extractedData # {}
ExtractedData == CHOOSE e \in (CHOOSE a \in aiAnalysis : TRUE).extractedData : TRUE

\* C22: in the product built by /api/analyze each field is the scraped value
\* when that value is non-empty / non-zero, otherwise the AI-extracted value
\* (or the default when there is none), and the title is derived from the URL
\* only when neither a scraped nor an AI-extracted title is available.
C22_ScrapedThenAiThenUrl ==
    [][(pc = "merging" /\ aiAnalysis # {Thrown}) =>
         \E p \in product' :
            LET s == ScrapedData
                e == ExtractedData
            IN /\ p.title =
                     IF HasScraped /\ s.title # "" THEN s.title
                     ELSE IF HasExtracted /\ e.title # "" THEN e.title
                     ELSE extractTitleFromUrl(url)
               /\ p.brand =
                     IF HasScraped /\ s.brand # "" THEN s.brand
                     ELSE IF HasExtracted THEN e.brand ELSE ""
               /\ p.price.current =
                     IF HasScraped /\ s.price.current # 0 THEN s.price.current
                     ELSE IF HasExtracted THEN e.price.current ELSE 0
               /\ p.price.original =
                     IF HasScraped /\ s.price.original \notin {Undefined, {0}}
                     THEN s.price.original
                     ELSE IF HasExtracted THEN e.price.original ELSE Undefined
               /\ p.images =
                     IF HasScraped /\ s.images # << >> THEN s.images
                     ELSE IF HasExtracted THEN e.images ELSE << >>
               /\ p.specifications =
                     IF HasScraped /\ s.specifications # {} THEN s.specifications
                     ELSE IF HasExtracted THEN e.specifications ELSE {}
               /\ p.ratings.average =
                     IF HasScraped /\ s.ratings.average # 0 THEN s.ratings.average
                     ELSE IF HasExtracted THEN e.ratings.average ELSE 0
               /\ p.ratings.count =
                     IF HasScraped /\ s.ratings.count # 0 THEN s.ratings.count
                     ELSE IF HasExtracted THEN e.ratings.count ELSE 0
               /\ p.highlights =
                     IF HasScraped /\ s.highlights # << >> THEN s.highlights
                     ELSE IF HasExtracted THEN e.highlights ELSE << >>]_vars

\* C22 witness: a product whose title and price were scraped and whose
\* brand, ratings and highlights were filled from the AI answer.
C22_Witness ==
    \E p \in product :
        /\ p.title = "Phone"
        /\ p.price.current = 99900
        /\ p.brand = "AI Brand"
        /\ p.ratings.count = 12
        /\ p.highlights = << "AI feature one" >>

\* The prices the DOM strategies of the Amazon and Flipkart extractors give
\* for a page, in chain order: for Amazon the whole and fraction elements, then
\* each alternative selector; for Flipkart each price selector.
DomStrategies(pg) ==
    LET whole == DigitsOnly(pg.priceWhole)
        fraction == DigitsOnly(pg.priceFraction)
        fromTexts == [i \in 1..Len(pg.priceTexts) |-> parsePrice(trim(pg.priceTexts[i]))]
    IN IF extractor = "amazon"
       THEN << IF whole = "" THEN 0
               ELSE NatOf(whole) * 100
                       + NatOf(SubSeq(fraction \o "00", 1, 2)) >> \o fromTexts
       ELSE fromTexts

\* C23: in the Amazon and Flipkart extractors, whenever some DOM strategy
\* gives a price above 0 the current price of the record is the price of the
\* first such strategy in chain order, whatever the JSON-LD scripts hold; the
\* JSON-LD price is taken only when no strategy gives one.
C23_JsonLdOnlyAsFallback ==
    \A r \in scraped, pg \in page :
        (r # Null /\ extractor \in {"amazon", "flipkart"}) =>
            LET st == DomStrategies(pg)
                hits == { i \in 1..Len(st) : st[i] > 0 }
            IN IF hits # {}
               THEN \E i \in hits : /\ \A j \in hits : i <= j
                                     /\ r.price.current = st[i]
               ELSE r.price.current =
                       IF extractPriceFromJsonLd(pg.jsonLd) # Null
                       THEN extractPriceFromJsonLd(pg.jsonLd).current ELSE 0

\* C23 witness: an Amazon page whose first strategy gives 0 and whose last
\* selector gives a price, with a JSON-LD offer of another price.
C23_Witness ==
    \E r \in scraped, pg \in page :
        /\ r # Null
        /\ extractor = "amazon"
        /\ DomStrategies(pg)[1] = 0
        /\ DomStrategies(pg)[Len(DomStrategies(pg))] = 129950
        /\ extractPriceFromJsonLd(pg.jsonLd) # Null
        /\ extractPriceFromJsonLd(pg.jsonLd).current = 149900
        /\ r.price.current = 129950

\* A script that is empty, does not parse, or holds null where an item is
\* expected.
Unreadable(sc) ==
    \/ sc.kind \in {"empty", "malformed"}
    \/ \E i \in 1..Len(sc.items) : sc.items[i].type = "null"

\* The offer price of a script whose first item is a Product with a numeric
\* price in its first offer, in hundredths; 0 for any other script.
ProductPrice(sc) ==
    IF /\ sc.kind = "json"
       /\ Len(sc.items) >= 1
       /\ sc.items[1].type = "Product"
       /\ Len(sc.items[1].offers) >= 1
    THEN IF sc.items[1].offers[1].price = JNum(149900) THEN 149900
         ELSE IF sc.items[1].offers[1].price = JStr("1499.00") THEN 149900
         ELSE 0
    ELSE 0

\* Some script that parses holds a Product item with a number or numeric text
\* as the price or lowPrice of an offer.
HasPricedProduct(scripts) ==
    \E i \in 1..Len(scripts) :
        /\ scripts[i].kind = "json"
        /\ \E k \in 1..Len(scripts[i].items) :
              /\ includes(scripts[i].items[k].type, "Product")
              /\ \E o \in 1..Len(scripts[i].items[k].offers) :
                    \E v \in scripts[i].items[k].offers[o].price
                              \cup scripts[i].items[k].offers[o].lowPrice :
                        \/ v.t = "num" /\ v.n # 0
                        \/ v.t = "str" /\ v.s # "" /\ IsDigit(Char(v.s, 1))

\* C24: extractPriceFromJsonLd returns null or a price, never an error; a
\* Product block that follows only blocks that are empty or do not parse has
\* its offer price returned; and the result is null when no block parses or
\* no Product with an offer price exists.
C24_MalformedBlocksAreSkipped ==
    \A pg \in page, j \in jsonLdResult :
        /\ j # Thrown
        /\ \A i \in 1..Len(pg.jsonLd) :
              (/\ ProductPrice(pg.jsonLd[i]) > 0
               /\ \A h \in 1..(i - 1) : Unreadable(pg.jsonLd[h]))
                  => (j # Null /\ j.current = ProductPrice(pg.jsonLd[i]))
        /\ (\A i \in 1..Len(pg.jsonLd) : pg.jsonLd[i].kind # "json") => j = Null
        /\ ~HasPricedProduct(pg.jsonLd) => j = Null

\* C24 witness: a block that does not parse before a Product block, whose
\* price is returned.
C24_Witness ==
    \E pg \in page, j \in jsonLdResult :
        /\ Len(pg.jsonLd) >= 2
        /\ \E h \in 1..(Len(pg.jsonLd) - 1) : pg.jsonLd[h].kind = "malformed"
        /\ ProductPrice(pg.jsonLd[Len(pg.jsonLd)]) = 149900
        /\ j # Null
        /\ j.current = 149900

\* Place of a store in the order Amazon, Flipkart, Croma, Reliance Digital.
LaunchPlace(store) ==
    CASE store = "Amazon" -> 1
      [] store = "Flipkart" -> 2
      [] store = "Croma" -> 3
      [] store = "Reliance Digital" -> 4

\* C25: when the batch completes before the deadline, the entries after the
\* source entry are in the order Amazon, Flipkart, Croma, Reliance Digital,
\* whatever the order in which the searches completed.
C25_ResultsInLaunchOrder ==
    (Returned /\ race = "all") =>
        \A i, j \in 2..Len(searchedPrices) :
            i < j => LaunchPlace(searchedPrices[i].store)
                        < LaunchPlace(searchedPrices[j].store)

\* C25 witness: three results returned after a search had settled before one
\* launched earlier.
C25_Witness ==
    /\ Returned
    /\ race = "all"
    /\ overtook
    /\ Len(searchedPrices) >= 4

\* The marketplace an extractor scrapes.
MarketplaceOf(ex) ==
    CASE ex = "amazon" -> "Amazon"
      [] ex = "flipkart" -> "Flipkart"
      [] ex = "croma" -> "Croma"
      [] ex = "meesho" -> "Meesho"
      [] ex = "reliancedigital" -> "Reliance Digital"
      [] ex = "myntra" -> "Myntra"

\* C26: for every URL of /api/analyze that holds one of the six marketplace
\* tokens, the label detectMarketplace gives names the marketplace of the
\* extractor scrapeProduct selects, and no price search is launched for that
\* marketplace.
C26_LabelNamesScrapedMarketplace ==
    (entry = "analyze" /\ \E i \in 1..6 : HasToken(i)) =>
        /\ extractor # "none"
        /\ sourceMarketplace = MarketplaceOf(extractor)
        /\ \A m \in Searchable : Started(m) => m # MarketplaceOf(extractor)

\* C27: in the product /api/analyze returns, the original price, when
\* present, is above the current price, whatever scraped and AI-extracted
\* data the merge received.
C27_MergedOriginalAboveCurrent ==
    \A p \in product : \A o \in p.price.original : o > p.price.current

\* C28: an analysis is submitted only while isLoading is false, so at most
\* one analyze request is in flight; the step that starts a request sets
\* isLoading and clears the error, and the step in which a request settles,
\* with a result or with a failure, leaves isLoading false.
C28_OneAnalysisAtATime ==
    [][ /\ analyzeFetches' <= 1
        /\ analyzeFetches' > analyzeFetches =>
              ~app.isLoading /\ app'.isLoading /\ app'.error = {}
        /\ analyzeFetches' < analyzeFetches => ~app'.isLoading ]_vars

\* An analysis submitted while the error of a failed one was on display has
\* settled with a result.
C28_Witness ==
    /\ clearedError
    /\ analyzeFetches = 0
    /\ ~app.isLoading
    /\ app.error = {}
    /\ app.analysisResult # {}

\* The answer block of AskAI is on the page with its "Confidence" line.
ConfidenceDisplayed ==
    /\ ResultsShown
    /\ committed.askAI.answer \notin {{}, {""}}
    /\ TruthyNum(committed.askAI.confidence)

\* C29: when AskAI displays a confidence, the answer displayed with it is the
\* answer of the response the confidence arrived in; the apology of a failed
\* request is never displayed with a confidence.
C29_ConfidenceBelongsToAnswer ==
    ConfidenceDisplayed =>
        /\ committed.askAI.answer = confidenceFrom
        /\ committed.askAI.answer # {Apology}

\* The stores of the PriceComparison view on the page, in the order shown.
ShownStores ==
    sortedStores((CHOOSE r \in committed.app.analysisResult : TRUE).priceComparison.stores)

\* C30: when a store of the PriceComparison view is flagged isBestPrice, the
\* store at rank 1 is flagged isBestPrice, and no unflagged store of price 0
\* is ranked ahead of a flagged store.
C30_BestPriceRanksFirst ==
    ResultsShown =>
        /\ (\E i \in 1..Len(ShownStores) : ShownStores[i].isBestPrice) =>
              ShownStores[1].isBestPrice
        /\ \A i, k \in 1..Len(ShownStores) :
              (i < k /\ ShownStores[k].isBestPrice) =>
                 ~(ShownStores[i].price = 0 /\ ~ShownStores[i].isBestPrice)

====
